---- MODULE Spec2Model ----
(***************************************************************************)
(* MeshSentinel (server.py): a mesh of nodes, each running the TCP socket  *)
(* layer, the packet handler (dedupe + relay), the hop graph recorder and  *)
(* the Flask verification endpoints.                                       *)
(*                                                                         *)
(* A node is identified by its IP; MY_DEVICE_ID(n) is its device id.       *)
(* Every `with <lock>:` block of the source is one atomic step; the code   *)
(* between two blocks is a thread position (the pc of a thread record).    *)
(* All threads of all nodes (connection threads, Flask request threads,    *)
(* push_sync threads) and all messages in flight live in the bag           *)
(* `threads`.                                                              *)
(***************************************************************************)
EXTENDS Integers, Sequences, FiniteSets, Bags, TLC

\* ------------------------------------------------------------------------
\* Bounds of the model
\* ------------------------------------------------------------------------

\* requests (HTTP requests and frames from outside the mesh) one node
\* receives over a run
MaxRequests == 3
\* POST /api/broadcast requests issued over a run of the flood
MaxBroadcasts == 1
\* requests the client of the trust specification sends over a run
MaxTrustRequests == 11
\* POST /verify requests issued over a run of the mesh
MaxVerifies == 2
\* requests and datagrams node A receives over a run of the registry
MaxRegistryOps == 3
\* the clock stops here
MaxTime == 32
\* the arrival of the event and the operator's requests that follow it
MaxOperatorRequests == 4
\* the broadcast, the clears and hellos, and the verifications of a run
MaxRejoinRequests == 3
\* requests and connections of a run with failing sends
MaxFailRequests == 3
\* inbound connections of a run
MaxConnections == 2
\* threads that take locks in one run
MaxLockThreads == 2
\* requests, connections and clock ticks of node A over a run of the hop log
MaxHopRequests == 3
\* requests, datagrams and keepalive rounds of node A over a run of the dial
\* specification
MaxDialOps == 5

\* ------------------------------------------------------------------------
\* Program constants
\* ------------------------------------------------------------------------

PEER_TIMEOUT == 30

\* thresholds of calculate_trust
HighChecks == 9
MediumChecks == 2

\* ------------------------------------------------------------------------
\* Universe
\* ------------------------------------------------------------------------

\* the nodes of the mesh; a node's name is also its IP address
Nodes == {"A", "B", "C"}

\* the event ids clients use
EventIds == {"E1"}

MY_DEVICE_ID(n) == "DEVICE-" \o n

\* device ids a client of POST /api/broadcast may put in the body: the
\* node's own id (what the dashboard does) or any other string
ClientDeviceIds(n) == {MY_DEVICE_ID(n), "DEVICE-X"}

get_my_ips(n) == {n}

EmptyFn == [x \in {} |-> x]

NoPacket == [event_id |-> "", device_id |-> "", hop_count |-> 0,
             is_authorized_node |-> FALSE]

VARIABLES
    event_log,        \* node -> (event_id -> event record)
    hop_log,          \* node -> (event_id -> sequence of edges)
    discovered_peers, \* node -> (ip -> last seen time)
    manual_peers,     \* node -> sequence of ips
    now,              \* time.time()
    threads,          \* bag of thread records / messages in flight
    created,          \* history: node -> event_id -> records created so far
    epoch_created,    \* history: same, since the node's last clear_events
    rounds,           \* history: node -> event_id -> [ingest, verify] calls of relay_to_peers
    sent,             \* history: set of alert frames written to a peer socket
    nsent,            \* history: event_id -> number of alert frames sent
    origin,           \* history: event_id -> set of [node, device_id] of broadcasts
    verified,         \* history: event_id -> node -> POST /verify requests that succeeded
    requests,         \* number of requests issued so far (the budget of a run)
    last_resp         \* history: the last HTTP response given

vars == <<event_log, hop_log, discovered_peers, manual_peers, now, threads,
          created, epoch_created, rounds, sent, nsent, origin, verified,
          requests, last_resp>>

registry == <<discovered_peers, manual_peers, now>>
history == <<created, epoch_created, rounds, sent, nsent, origin, verified,
             last_resp>>

\* ------------------------------------------------------------------------
\* Link registry
\* ------------------------------------------------------------------------

\* mutant: the liveness test is the reaper's (entries older than the timeout)
get_all_known_peers_expired(n) ==
    LET my_ips == get_my_ips(n)
        alive  == {ip \in DOMAIN discovered_peers[n] :
                      /\ now - discovered_peers[n][ip] > PEER_TIMEOUT
                      /\ ip \notin my_ips}
        manual == {manual_peers[n][i] : i \in DOMAIN manual_peers[n]} \ my_ips
    IN  alive \cup manual

\* mutant: the node's own addresses are not filtered out
get_all_known_peers_with_self(n) ==
    LET alive  == {ip \in DOMAIN discovered_peers[n] :
                      now - discovered_peers[n][ip] < PEER_TIMEOUT}
        manual == {manual_peers[n][i] : i \in DOMAIN manual_peers[n]}
    IN  alive \cup manual

get_all_known_peers(n) ==
    LET my_ips == get_my_ips(n)
        alive  == {ip \in DOMAIN discovered_peers[n] :
                      /\ now - discovered_peers[n][ip] < PEER_TIMEOUT
                      /\ ip \notin my_ips}
        manual == {manual_peers[n][i] : i \in DOMAIN manual_peers[n]} \ my_ips
    IN  alive \cup manual

\* discovered_peers[peer_ip] = time.time()
Register(reg, ip) == [x \in DOMAIN reg \cup {ip} |-> IF x = ip THEN now ELSE reg[x]]

\* ------------------------------------------------------------------------
\* Trust engine
\* ------------------------------------------------------------------------

TrustRank(t) == CASE t = "LOW" -> 0 [] t = "MEDIUM" -> 1 [] t = "HIGH" -> 2 [] OTHER -> 0 - 1

VerifiedChecks(entry) == entry.cross_checks \ {entry.packet.device_id}

\* mutant: the device of the stored packet counts as a verifier
calculate_trust_counts_original(entry) ==
    IF entry.authorized_node THEN "HIGH"
    ELSE LET count == Cardinality(entry.cross_checks)
         IN  IF count >= HighChecks THEN "HIGH"
             ELSE IF count >= MediumChecks THEN "MEDIUM"
             ELSE "LOW"

calculate_trust(entry) ==
    IF entry.authorized_node THEN "HIGH"
    ELSE LET count == Cardinality(VerifiedChecks(entry))
         IN  IF count >= HighChecks THEN "HIGH"
             ELSE IF count >= MediumChecks THEN "MEDIUM"
             ELSE "LOW"

\* ------------------------------------------------------------------------
\* Hop graph recording
\* ------------------------------------------------------------------------

PeerLabel(ip) == "PEER@" \o ip

HopsOf(log, eid) == IF eid \in DOMAIN log THEN log[eid] ELSE <<>>

\* mutant: the edge is appended whether or not the pair is there already
record_hop_appends(log, eid, from_device, to_device, hop_num, from_ip, to_ip) ==
    LET old      == HopsOf(log, eid)
        edge     == [from_device |-> from_device, to_device |-> to_device,
                     hop |-> hop_num, ts |-> now,
                     from_ip |-> from_ip, to_ip |-> to_ip]
    IN  [x \in DOMAIN log \cup {eid} |-> IF x = eid THEN Append(old, edge) ELSE log[x]]

\* record_hop under hop_lock: the new value of one node's hop_log
record_hop(log, eid, from_device, to_device, hop_num, from_ip, to_ip) ==
    LET old      == HopsOf(log, eid)
        existing == {<<old[i].from_device, old[i].to_device>> : i \in DOMAIN old}
        edge     == [from_device |-> from_device, to_device |-> to_device,
                     hop |-> hop_num, ts |-> now,
                     from_ip |-> from_ip, to_ip |-> to_ip]
        new      == IF <<from_device, to_device>> \notin existing
                    THEN Append(old, edge) ELSE old
    IN  [x \in DOMAIN log \cup {eid} |-> IF x = eid THEN new ELSE log[x]]

\* ------------------------------------------------------------------------
\* Threads
\* ------------------------------------------------------------------------

\* kind   "ingest": a run of handle_packet (from handle_connection or broadcast)
\*        "verify": a run of verify_event after its critical section
\*        "push"  : the push_sync thread verify_event starts
\*        "sync"  : a POST /sync request on its way to `node`
\* pc     "wire"  : written to the socket of `node`, not yet accepted
\*        "hop"   : handle_connection registered the peer; record_hop is next
\*        "lock"  : about to enter `with event_lock:`
\*        "reread": verify_event about to read event_log[event_id] (line 678)
\*        "peers" : about to call get_all_known_peers()
\*        "send"  : in the loop over the peers still to do
\*        "rec"   : sendall to `cur` succeeded, record_hop is next
\*        "spawn" : verify_event about to start push_sync
\* round  the number of this relay round among the node's rounds for the event
Thread(kind, node, pc, packet, ip, todo, cur, trust, count) ==
    [kind |-> kind, node |-> node, pc |-> pc, packet |-> packet, ip |-> ip,
     todo |-> todo, cur |-> cur, trust |-> trust, count |-> count, round |-> 0]

Add(t)         == threads (+) SetToBag({t})
Replace(t, u)  == (threads (-) SetToBag({t})) (+) SetToBag({u})
Remove(t)      == threads (-) SetToBag({t})
Running        == BagToSet(threads)

\* the frame relay_to_peers writes to peer_ip, as a connection at the peer
Frame(peer_ip, from_ip, packet) ==
    Thread("ingest", peer_ip, "wire", packet, from_ip, {}, "", "", 0)

\* ------------------------------------------------------------------------
\* Initial state
\* ------------------------------------------------------------------------

\* The process starts with empty tables. The link registry is started in any
\* state UDP discovery can have brought it to: every node has heard, just now,
\* from any set of other nodes.
Init ==
    /\ event_log = [n \in Nodes |-> EmptyFn]
    /\ hop_log = [n \in Nodes |-> EmptyFn]
    /\ now = 0
    /\ \E topo \in [Nodes -> SUBSET Nodes] :
         /\ \A n \in Nodes : n \notin topo[n]
         /\ discovered_peers = [n \in Nodes |-> [ip \in topo[n] |-> 0]]
    /\ manual_peers = [n \in Nodes |-> <<>>]
    /\ threads = EmptyBag
    /\ created = [n \in Nodes |-> [e \in EventIds |-> 0]]
    /\ epoch_created = [n \in Nodes |-> [e \in EventIds |-> 0]]
    /\ rounds = [n \in Nodes |-> [e \in EventIds |-> [ingest |-> 0, verify |-> 0]]]
    /\ sent = {}
    /\ nsent = [e \in EventIds |-> 0]
    /\ origin = [e \in EventIds |-> {}]
    /\ verified = [e \in EventIds |-> [n \in Nodes |-> 0]]
    /\ requests = 0
    /\ last_resp = [op |-> "", node |-> "", event_id |-> "", status |-> 0]

\* ------------------------------------------------------------------------
\* HTTP responses
\* ------------------------------------------------------------------------

Response(op, n, eid, status) ==
    [op |-> op, node |-> n, event_id |-> eid, status |-> status]

\* ------------------------------------------------------------------------
\* POST /api/broadcast
\* ------------------------------------------------------------------------

\* broadcast(), all required fields present: builds the packet with
\* hop_count 0 and calls handle_packet(packet, relay=True); with no
\* received_from_ip the first effect of handle_packet is the critical section
Broadcast(n, eid, device_id, auth) ==
    /\ threads' = Add(Thread("ingest", n, "lock",
                             [event_id |-> eid, device_id |-> device_id,
                              hop_count |-> 0, is_authorized_node |-> auth],
                             "", {}, "", "", 0))
    /\ origin' = [origin EXCEPT ![eid] = @ \cup {[node |-> n, device_id |-> device_id]}]
    /\ UNCHANGED <<event_log, hop_log, registry, created, epoch_created, rounds,
                   sent, nsent, verified, last_resp>>

\* the fields broadcast() requires in the body
RequiredFields == {"event_id", "type", "device_id"}

\* broadcast(), a required field is missing from the body: 400
BroadcastInvalid(n, fields) ==
    /\ fields \subseteq RequiredFields
    /\ fields # RequiredFields
    /\ last_resp' = Response("broadcast", n, "", 400)
    /\ UNCHANGED <<event_log, hop_log, registry, threads, created, epoch_created,
                   rounds, sent, nsent, origin, verified>>

\* ------------------------------------------------------------------------
\* TCP socket layer and packet handling
\* ------------------------------------------------------------------------

\* mutant: a frame without event_id goes on into handle_packet
AcceptEveryFrame(t) ==
    /\ t.kind = "ingest" /\ t.pc = "wire"
    /\ discovered_peers' = [discovered_peers EXCEPT
                              ![t.node] = Register(@, t.ip)]
    /\ threads' = Replace(t, [t EXCEPT !.pc = "hop"])
    /\ UNCHANGED <<event_log, hop_log, manual_peers, now, history>>

\* handle_connection: a connection arrives; the remote IP is registered
Accept(t) ==
    /\ t.kind = "ingest" /\ t.pc = "wire"
    /\ discovered_peers' = [discovered_peers EXCEPT
                              ![t.node] = Register(@, t.ip)]
    /\ threads' = IF t.packet.event_id = ""
                  THEN Remove(t)      \* handle_packet: `if not eid: return`
                  ELSE Replace(t, [t EXCEPT !.pc = "hop"])
    /\ UNCHANGED <<event_log, hop_log, manual_peers, now, history>>

\* handle_packet, from_peer: record_hop(eid, sender_device, my_device, hop_num)
RecordHopIn(t) ==
    /\ t.kind = "ingest" /\ t.pc = "hop"
    /\ hop_log' = [hop_log EXCEPT ![t.node] =
                     record_hop(@, t.packet.event_id, t.packet.device_id,
                                MY_DEVICE_ID(t.node), t.packet.hop_count,
                                t.ip, t.node)]
    /\ threads' = Replace(t, [t EXCEPT !.pc = "lock"])
    /\ UNCHANGED <<event_log, registry, history>>

\* mutant: the dedupe test always fails
IsDuplicateNever(n, eid) == FALSE

\* `if eid in event_log`
IsDuplicate(n, eid) == eid \in DOMAIN event_log[n]

\* mutant: every fresh record is pending, whatever its source
NewEntryAlwaysPending(n, packet, from_peer) ==
    LET entry == [packet          |-> packet,
                  devices_reached |-> {MY_DEVICE_ID(n), packet.device_id},
                  cross_checks    |-> {},
                  pending_verify  |-> TRUE,
                  dismissed       |-> FALSE,
                  authorized_node |-> packet.is_authorized_node,
                  trust           |-> "LOW",
                  max_hop         |-> packet.hop_count,
                  first_seen      |-> now]
    IN  [entry EXCEPT !.trust = calculate_trust(entry)]

\* the record handle_packet stores for a fresh event
NewEntry(n, packet, from_peer) ==
    LET entry == [packet          |-> packet,
                  devices_reached |-> {MY_DEVICE_ID(n), packet.device_id},
                  cross_checks    |-> {},
                  pending_verify  |-> from_peer,
                  dismissed       |-> FALSE,
                  authorized_node |-> packet.is_authorized_node,
                  trust           |-> "LOW",
                  max_hop         |-> packet.hop_count,
                  first_seen      |-> now]
    IN  [entry EXCEPT !.trust = calculate_trust(entry)]

\* mutant: the relay keeps the device_id of the packet it received
AugmentedKeepsSender(n, packet) ==
    [packet EXCEPT !.hop_count = packet.hop_count + 1]

\* augmented = dict(packet); hop_count + 1; device_id = my_device
Augmented(n, packet) ==
    [packet EXCEPT !.hop_count = packet.hop_count + 1,
                   !.device_id = MY_DEVICE_ID(n)]

\* a connection thread of handle_connection with `pos` lines of the stream
\* named `stream` behind it
Connection(n, ip, pc, stream, pos) ==
    Thread("conn", n, pc, NoPacket, ip, {}, "", stream, pos)

\* The bag once thread t has returned to its caller: a handle_packet call
\* made for a line of a connection returns into the loop of
\* handle_connection, every other thread ends
Returned(t) ==
    IF t.kind = "ingest" /\ t.trust # ""
    THEN Replace(t, Connection(t.node, t.ip, "recv", t.trust, t.count))
    ELSE Remove(t)

\* the response of the Flask handler that ran thread t, if it is one
RespondAfter(t) ==
    IF t.kind = "ingest" /\ t.ip = ""
    THEN last_resp' = Response("broadcast", t.node, t.packet.event_id, 200)
    ELSE UNCHANGED last_resp

\* mutant: the duplicate branch leaves devices_reached as it is
IngestDuplicateSilent(t) ==
    /\ t.kind = "ingest" /\ t.pc = "lock"
    /\ IsDuplicate(t.node, t.packet.event_id)
    /\ threads' = Returned(t)
    /\ RespondAfter(t)
    /\ UNCHANGED <<event_log, hop_log, registry, created, epoch_created, rounds,
                   sent, nsent, origin, verified>>

\* mutant: the duplicate branch falls through to the relay
IngestDuplicateRelays(t) ==
    /\ t.kind = "ingest" /\ t.pc = "lock"
    /\ IsDuplicate(t.node, t.packet.event_id)
    /\ event_log' = [event_log EXCEPT ![t.node][t.packet.event_id].devices_reached =
                                         @ \cup {t.packet.device_id}]
    /\ threads' = Replace(t, [t EXCEPT !.pc = "peers",
                                       !.packet = Augmented(t.node, t.packet)])
    /\ UNCHANGED <<hop_log, registry, history>>

\* handle_packet, `with event_lock:`, the duplicate branch
IngestDuplicate(t) ==
    /\ t.kind = "ingest" /\ t.pc = "lock"
    /\ IsDuplicate(t.node, t.packet.event_id)
    /\ event_log' = [event_log EXCEPT ![t.node][t.packet.event_id].devices_reached =
                                         @ \cup {t.packet.device_id}]
    /\ threads' = Returned(t)
    /\ RespondAfter(t)
    /\ UNCHANGED <<hop_log, registry, created, epoch_created, rounds, sent, nsent,
                   origin, verified>>

\* handle_packet, `with event_lock:`, the fresh branch; the relay follows
IngestFresh(t) ==
    LET n == t.node
        eid == t.packet.event_id
    IN  /\ t.kind = "ingest" /\ t.pc = "lock"
        /\ ~IsDuplicate(n, eid)
        /\ event_log' = [event_log EXCEPT ![n] =
                           [x \in DOMAIN @ \cup {eid} |->
                              IF x = eid THEN NewEntry(n, t.packet, t.ip # "")
                              ELSE @[x]]]
        /\ created' = [created EXCEPT ![n][eid] = @ + 1]
        /\ epoch_created' = [epoch_created EXCEPT ![n][eid] = @ + 1]
        /\ threads' = Replace(t, [t EXCEPT !.pc = "peers",
                                           !.packet = Augmented(n, t.packet)])
        /\ UNCHANGED <<hop_log, registry, rounds, sent, nsent, origin, verified,
                       last_resp>>

\* ------------------------------------------------------------------------
\* handle_connection: the lines of one connection
\* ------------------------------------------------------------------------

\* What a line of a connection can be: an alert or keepalive object, text
\* that json.loads rejects (JSONDecodeError), bytes that bytes.decode rejects
\* (UnicodeDecodeError), or JSON that is not an object (handle_packet raises
\* AttributeError at packet.get)
ObjectLine(packet) == [kind |-> "object", packet |-> packet]
OtherLine(kind) == [kind |-> kind, packet |-> NoPacket]

\* a frame without event_id
KeepaliveFrame == [NoPacket EXCEPT !.device_id = MY_DEVICE_ID("B")]

\* the alert frames of the streams: B relays E1, first as it got it from
\* its own client, then as it got it from C
StreamAlert(i) ==
    [event_id |-> "E1", device_id |-> IF i = 1 THEN MY_DEVICE_ID("B") ELSE MY_DEVICE_ID("C"),
     hop_count |-> i, is_authorized_node |-> FALSE]

StreamNames ==
    {"alert,alert", "bad_json,alert", "bad_utf8,alert", "not_object,alert",
     "keepalive,alert"}

\* the lines a peer writes on one connection, by the name of the stream
Stream(name) ==
    CASE name = "alert,alert" -> <<ObjectLine(StreamAlert(1)), ObjectLine(StreamAlert(2))>>
      [] name = "bad_json,alert" -> <<OtherLine("bad_json"), ObjectLine(StreamAlert(1))>>
      [] name = "bad_utf8,alert" -> <<OtherLine("bad_utf8"), ObjectLine(StreamAlert(1))>>
      [] name = "not_object,alert" -> <<OtherLine("not_object"), ObjectLine(StreamAlert(1))>>
      [] name = "keepalive,alert" ->
            <<ObjectLine(KeepaliveFrame), ObjectLine(StreamAlert(1))>>
      [] OTHER -> <<>>

\* a peer at `ip` connects and writes the lines of a stream
Connect(n, ip, stream) ==
    /\ threads' = Add(Connection(n, ip, "wire", stream, 0))
    /\ UNCHANGED <<event_log, hop_log, registry, history>>

\* handle_connection up to the receive loop: the remote IP is registered
ConnAccept(t) ==
    /\ t.kind = "conn" /\ t.pc = "wire"
    /\ discovered_peers' = [discovered_peers EXCEPT ![t.node] = Register(@, t.ip)]
    /\ threads' = Replace(t, [t EXCEPT !.pc = "recv"])
    /\ UNCHANGED <<event_log, hop_log, manual_peers, now, history>>

\* One pass of the loop over the lines in the buffer. json.loads(line.decode())
\* and handle_packet run inside `try ... except json.JSONDecodeError`; any
\* other exception leaves the loops for the outer `except Exception` and
\* `finally: conn.close()`. After the last line recv returns b"" and the
\* connection is closed.
ConnLine(t) ==
    LET lines == Stream(t.trust)
        line  == lines[t.count + 1]
        next  == [t EXCEPT !.count = @ + 1]
    IN  /\ t.kind = "conn" /\ t.pc = "recv"
        /\ threads' =
             IF t.count >= Len(lines) THEN Remove(t)
             ELSE CASE line.kind = "bad_json" -> Replace(t, next)
                    [] line.kind = "object" /\ line.packet.event_id = "" ->
                          Replace(t, next)
                    [] line.kind = "object" /\ line.packet.event_id # "" ->
                          Replace(t, [next EXCEPT !.kind = "ingest", !.pc = "hop",
                                                  !.packet = line.packet])
                    [] OTHER -> Remove(t)
        /\ UNCHANGED <<event_log, hop_log, registry, history>>

\* ------------------------------------------------------------------------
\* relay_to_peers
\* ------------------------------------------------------------------------

RoundsOf(n, eid) == rounds[n][eid].ingest + rounds[n][eid].verify

CountRound(t) ==
    IF t.kind = "verify"
    THEN [rounds EXCEPT ![t.node][t.packet.event_id].verify = @ + 1]
    ELSE [rounds EXCEPT ![t.node][t.packet.event_id].ingest = @ + 1]

\* the bag once relay_to_peers has returned in thread t (now in state u):
\* verify_event goes on to start push_sync, handle_packet returns
AfterRelay(t, u) ==
    IF u.kind = "verify"
    THEN Replace(t, [u EXCEPT !.pc = "spawn", !.todo = {}, !.cur = ""])
    ELSE Returned(t)

\* `for peer_ip in get_all_known_peers()`: the list is built once
RelayPeers(t) ==
    LET known == get_all_known_peers(t.node)
        u     == [t EXCEPT !.pc = "send", !.todo = known,
                           !.round = RoundsOf(t.node, t.packet.event_id) + 1]
    IN  /\ t.kind \in {"ingest", "verify"} /\ t.pc = "peers"
        /\ rounds' = CountRound(t)
        /\ IF known = {}
           THEN /\ threads' = AfterRelay(t, u)
                /\ RespondAfter(t)
           ELSE /\ threads' = Replace(t, u)
                /\ UNCHANGED last_resp
        /\ UNCHANGED <<event_log, hop_log, registry, created, epoch_created,
                       sent, nsent, origin, verified>>

\* connect + sendall to one peer succeed: the frame is on its way
RelaySend(t, peer_ip) ==
    /\ t.kind \in {"ingest", "verify"} /\ t.pc = "send"
    /\ peer_ip \in t.todo
    /\ threads' = Replace(t, [t EXCEPT !.pc = "rec", !.cur = peer_ip,
                                       !.todo = @ \ {peer_ip}])
                  (+) SetToBag({Frame(peer_ip, t.node, t.packet)})
    /\ sent' = sent \cup {[src |-> t.node, dst |-> peer_ip, packet |-> t.packet,
                           via |-> t.kind, round |-> t.round]}
    /\ nsent' = [nsent EXCEPT ![t.packet.event_id] = @ + 1]
    /\ UNCHANGED <<event_log, hop_log, registry, created, epoch_created, rounds,
                   origin, verified, last_resp>>

\* the loop body is over for one peer in thread t (now in state u): the
\* next peer, or relay_to_peers returns
NextPeer(t, u) ==
    IF u.todo = {} THEN AfterRelay(t, u)
    ELSE Replace(t, [u EXCEPT !.pc = "send", !.cur = ""])

\* mutant: the first failure ends the round
RelaySendFailAborts(t, peer_ip) ==
    /\ t.kind \in {"ingest", "verify"} /\ t.pc = "send"
    /\ peer_ip \in t.todo
    /\ threads' = AfterRelay(t, [t EXCEPT !.todo = {}])
    /\ RespondAfter(t)
    /\ UNCHANGED <<event_log, hop_log, registry, created, epoch_created, rounds,
                   sent, nsent, origin, verified>>

\* connect or sendall raised: logged at debug, next peer
RelaySendFail(t, peer_ip) ==
    /\ t.kind \in {"ingest", "verify"} /\ t.pc = "send"
    /\ peer_ip \in t.todo
    /\ threads' = NextPeer(t, [t EXCEPT !.todo = @ \ {peer_ip}])
    /\ IF t.todo = {peer_ip} THEN RespondAfter(t) ELSE UNCHANGED last_resp
    /\ UNCHANGED <<event_log, hop_log, registry, created, epoch_created, rounds,
                   sent, nsent, origin, verified>>

\* record_hop(origin_event_id, my_device, "PEER@ip", hop_num) after a send
RelayRecord(t) ==
    /\ t.kind \in {"ingest", "verify"} /\ t.pc = "rec"
    /\ hop_log' = [hop_log EXCEPT ![t.node] =
                     record_hop(@, t.packet.event_id, MY_DEVICE_ID(t.node),
                                PeerLabel(t.cur), t.packet.hop_count,
                                t.node, t.cur)]
    /\ threads' = NextPeer(t, t)
    /\ IF t.todo = {} THEN RespondAfter(t) ELSE UNCHANGED last_resp
    /\ UNCHANGED <<event_log, registry, created, epoch_created, rounds, sent,
                   nsent, origin, verified>>

\* ------------------------------------------------------------------------
\* POST /api/events/<event_id>/verify
\* ------------------------------------------------------------------------

EventOnly(eid) == [NoPacket EXCEPT !.event_id = eid]

\* `if event_id not in event_log: return 404`
VerifyUnknown(n, eid) ==
    /\ eid \notin DOMAIN event_log[n]
    /\ last_resp' = Response("verify", n, eid, 404)
    /\ UNCHANGED <<event_log, hop_log, registry, threads, created, epoch_created,
                   rounds, sent, nsent, origin, verified>>

\* `if MY_DEVICE_ID == original`
IsOwnAlert(n, entry) == MY_DEVICE_ID(n) = entry.packet.device_id

\* `return 400` for an alert whose stored packet carries this node's id
VerifyOwn(n, eid) ==
    /\ eid \in DOMAIN event_log[n]
    /\ IsOwnAlert(n, event_log[n][eid])
    /\ last_resp' = Response("verify", n, eid, 400)
    /\ UNCHANGED <<event_log, hop_log, registry, threads, created, epoch_created,
                   rounds, sent, nsent, origin, verified>>

\* mutant: verify leaves pending_verify as it is
VerifyEntryKeepsPending(n, entry) ==
    LET e1 == [entry EXCEPT !.cross_checks = @ \cup {MY_DEVICE_ID(n)},
                            !.dismissed = FALSE]
    IN  [e1 EXCEPT !.trust = calculate_trust(e1)]

\* the four assignments of verify_event's critical section
VerifyEntry(n, entry) ==
    LET e1 == [entry EXCEPT !.cross_checks = @ \cup {MY_DEVICE_ID(n)},
                            !.pending_verify = FALSE,
                            !.dismissed = FALSE]
    IN  [e1 EXCEPT !.trust = calculate_trust(e1)]

\* verify_event, `with event_lock:`, the successful path; the re-broadcast
\* and the sync push follow outside the lock
VerifyLocked(n, eid) ==
    /\ eid \in DOMAIN event_log[n]
    /\ ~IsOwnAlert(n, event_log[n][eid])
    /\ LET entry == VerifyEntry(n, event_log[n][eid])
       IN  /\ event_log' = [event_log EXCEPT ![n][eid] = entry]
           /\ threads' = Add(Thread("verify", n, "reread", EventOnly(eid), "", {},
                                    "", entry.trust,
                                    Cardinality(VerifiedChecks(entry))))
    /\ verified' = [verified EXCEPT ![eid][n] = @ + 1]
    /\ UNCHANGED <<hop_log, registry, created, epoch_created, rounds, sent, nsent,
                   origin, last_resp>>

\* lines 678-681, outside the lock: entry = event_log[event_id] raises
\* KeyError when the table was cleared meanwhile (Flask answers 500)
VerifyReread(t) ==
    LET n == t.node
        eid == t.packet.event_id
    IN  /\ t.kind = "verify" /\ t.pc = "reread"
        /\ IF eid \in DOMAIN event_log[n]
           THEN /\ threads' = Replace(t, [t EXCEPT !.pc = "peers", !.packet =
                       [event_log[n][eid].packet EXCEPT
                           !.hop_count = event_log[n][eid].max_hop + 1,
                           !.device_id = MY_DEVICE_ID(n)]])
                /\ UNCHANGED last_resp
           ELSE /\ threads' = Remove(t)
                /\ last_resp' = Response("verify", n, eid, 500)
        /\ UNCHANGED <<event_log, hop_log, registry, created, epoch_created, rounds,
                       sent, nsent, origin, verified>>

\* threading.Thread(target=push_sync).start(); return 200
VerifySpawn(t) ==
    /\ t.kind = "verify" /\ t.pc = "spawn"
    /\ threads' = Replace(t, Thread("push", t.node, "peers",
                                    EventOnly(t.packet.event_id), "", {}, "",
                                    t.trust, t.count))
    /\ last_resp' = Response("verify", t.node, t.packet.event_id, 200)
    /\ UNCHANGED <<event_log, hop_log, registry, created, epoch_created, rounds,
                   sent, nsent, origin, verified>>

\* ------------------------------------------------------------------------
\* POST /api/events/<event_id>/sync
\* ------------------------------------------------------------------------

\* mutant: the trust of the body is stored and not recomputed
SyncEntryKeepsBodyTrust(entry, verifier, new_trust) ==
    LET e1 == IF verifier # ""
              THEN [entry EXCEPT !.cross_checks = @ \cup {verifier}] ELSE entry
    IN  IF new_trust \in {"LOW", "MEDIUM", "HIGH"}
        THEN [e1 EXCEPT !.trust = new_trust] ELSE e1

\* the assignments of sync_event_verification's critical section
SyncEntry(entry, verifier, new_trust) ==
    LET e1 == IF verifier # ""
              THEN [entry EXCEPT !.cross_checks = @ \cup {verifier}] ELSE entry
        e2 == IF new_trust \in {"LOW", "MEDIUM", "HIGH"}
              THEN [e1 EXCEPT !.trust = new_trust] ELSE e1
    IN  [e2 EXCEPT !.trust = calculate_trust(e2)]

\* mutant: a sync for an event the node has not received stores a stub
SyncLockedUpserts(n, eid, verifier, new_trust) ==
    IF eid \in DOMAIN event_log[n]
    THEN /\ event_log' = [event_log EXCEPT ![n][eid] =
                            SyncEntry(@, verifier, new_trust)]
         /\ UNCHANGED last_resp
    ELSE /\ last_resp' = Response("sync", n, eid, 404)
         /\ event_log' = [event_log EXCEPT ![n] =
                            [x \in DOMAIN @ \cup {eid} |->
                               IF x = eid
                               THEN SyncEntry(NewEntry(n, EventOnly(eid), TRUE),
                                              verifier, new_trust)
                               ELSE @[x]]]

\* sync_event_verification up to the end of `with event_lock:`; on a known
\* event the handler still has to build its response outside the lock
SyncLocked(n, eid, verifier, new_trust) ==
    IF eid \in DOMAIN event_log[n]
    THEN /\ event_log' = [event_log EXCEPT ![n][eid] =
                            SyncEntry(@, verifier, new_trust)]
         /\ UNCHANGED last_resp
    ELSE /\ last_resp' = Response("sync", n, eid, 404)
         /\ UNCHANGED event_log

\* the handler thread with its locals `verifier` and `new_trust`
SyncHandler(n, eid, verifier, new_trust) ==
    Thread("sync", n, "respond", EventOnly(eid), "", {}, verifier, new_trust, 0)

\* POST /sync from any HTTP client
Sync(n, eid, verifier, new_trust) ==
    /\ SyncLocked(n, eid, verifier, new_trust)
    /\ threads' = IF eid \in DOMAIN event_log[n]
                  THEN Add(SyncHandler(n, eid, verifier, new_trust)) ELSE threads
    /\ UNCHANGED <<hop_log, registry, created, epoch_created, rounds, sent, nsent,
                   origin, verified>>

\* line 736, outside the lock: event_log[event_id]["trust"] raises KeyError
\* when the table was cleared meanwhile
SyncRespond(t) ==
    /\ t.kind = "sync" /\ t.pc = "respond"
    /\ threads' = Remove(t)
    /\ last_resp' = Response("sync", t.node, t.packet.event_id,
                             IF t.packet.event_id \in DOMAIN event_log[t.node]
                             THEN 200 ELSE 500)
    /\ UNCHANGED <<event_log, hop_log, registry, created, epoch_created, rounds,
                   sent, nsent, origin, verified>>

\* push_sync: `for peer_ip in get_all_known_peers()`
PushPeers(t) ==
    LET known == get_all_known_peers(t.node)
    IN  /\ t.kind = "push" /\ t.pc = "peers"
        /\ threads' = IF known = {} THEN Remove(t)
                      ELSE Replace(t, [t EXCEPT !.pc = "send", !.todo = known])
        /\ UNCHANGED <<event_log, hop_log, registry, history>>

\* the bag once push_sync is done with one peer
PushNext(t, peer_ip, more) ==
    LET u == [t EXCEPT !.todo = @ \ {peer_ip}]
    IN  IF u.todo = {} THEN Remove(t) (+) more
        ELSE Replace(t, u) (+) more

\* urlopen(POST /sync) to one peer: the peer's handler runs its critical
\* section while push_sync waits for the answer (a 404 raises HTTPError,
\* which push_sync logs at debug like any other failure)
PushSync(t, peer_ip) ==
    LET eid == t.packet.event_id
    IN  /\ t.kind = "push" /\ t.pc = "send"
        /\ peer_ip \in t.todo
        /\ peer_ip \in Nodes
        /\ SyncLocked(peer_ip, eid, MY_DEVICE_ID(t.node), t.trust)
        /\ threads' = PushNext(t, peer_ip,
                          IF eid \in DOMAIN event_log[peer_ip]
                          THEN SetToBag({SyncHandler(peer_ip, eid,
                                                      MY_DEVICE_ID(t.node), t.trust)})
                          ELSE EmptyBag)
        /\ UNCHANGED <<hop_log, registry, created, epoch_created, rounds, sent,
                       nsent, origin, verified>>

\* urlopen raised before the peer saw the request
PushFail(t, peer_ip) ==
    /\ t.kind = "push" /\ t.pc = "send"
    /\ peer_ip \in t.todo
    /\ threads' = PushNext(t, peer_ip, EmptyBag)
    /\ UNCHANGED <<event_log, hop_log, registry, history>>

\* ------------------------------------------------------------------------
\* POST dismiss / authorize, DELETE /api/events
\* ------------------------------------------------------------------------

\* mutant: dismiss leaves pending_verify as it is
DismissEntryKeepsPending(entry) == [entry EXCEPT !.dismissed = TRUE]

\* mutant: dismiss flips the dismissed flag
DismissEntryToggles(entry) ==
    [entry EXCEPT !.pending_verify = FALSE, !.dismissed = ~@]

\* the assignments of dismiss_event's critical section
DismissEntry(entry) == [entry EXCEPT !.pending_verify = FALSE, !.dismissed = TRUE]

dismiss_event(n, eid) ==
    /\ IF eid \in DOMAIN event_log[n]
       THEN /\ event_log' = [event_log EXCEPT ![n][eid] = DismissEntry(@)]
            /\ last_resp' = Response("dismiss", n, eid, 200)
       ELSE /\ last_resp' = Response("dismiss", n, eid, 404)
            /\ UNCHANGED event_log
    /\ UNCHANGED <<hop_log, registry, threads, created, epoch_created, rounds,
                   sent, nsent, origin, verified>>

\* mutant: authorize sets the flag and leaves the trust to the next recompute
AuthorizeEntryLazy(entry) ==
    [entry EXCEPT !.authorized_node = TRUE, !.pending_verify = FALSE]

\* the assignments of authorize_event's critical section
AuthorizeEntry(entry) ==
    [entry EXCEPT !.authorized_node = TRUE, !.pending_verify = FALSE,
                  !.trust = "HIGH"]

authorize_event(n, eid) ==
    /\ IF eid \in DOMAIN event_log[n]
       THEN /\ event_log' = [event_log EXCEPT ![n][eid] = AuthorizeEntry(@)]
            /\ last_resp' = Response("authorize", n, eid, 200)
       ELSE /\ last_resp' = Response("authorize", n, eid, 404)
            /\ UNCHANGED event_log
    /\ UNCHANGED <<hop_log, registry, threads, created, epoch_created, rounds,
                   sent, nsent, origin, verified>>

\* clear_events, `with event_lock: event_log.clear()`
ClearEvents(n) ==
    /\ event_log' = [event_log EXCEPT ![n] = EmptyFn]
    /\ epoch_created' = [epoch_created EXCEPT ![n] = [e \in EventIds |-> 0]]
    /\ threads' = Add(Thread("clear", n, "hops", NoPacket, "", {}, "", "", 0))
    /\ UNCHANGED <<hop_log, registry, created, rounds, sent, nsent, origin,
                   verified, last_resp>>

\* clear_events, `with hop_lock: hop_log.clear()`, and the response
ClearHops(t) ==
    /\ t.kind = "clear" /\ t.pc = "hops"
    /\ hop_log' = [hop_log EXCEPT ![t.node] = EmptyFn]
    /\ threads' = Remove(t)
    /\ last_resp' = Response("clear", t.node, "", 200)
    /\ UNCHANGED <<event_log, registry, created, epoch_created, rounds, sent,
                   nsent, origin, verified>>

\* ------------------------------------------------------------------------
\* Discovery, reaper, keepalive, GET/POST/DELETE /api/peers
\* ------------------------------------------------------------------------

\* time.time() advances
Tick(d) ==
    /\ now' = now + d
    /\ UNCHANGED <<event_log, hop_log, discovered_peers, manual_peers, threads,
                   history>>

\* start_discovery_listener: a hello datagram from another host
Hello(n, peer_ip) ==
    /\ peer_ip \notin get_my_ips(n)
    /\ discovered_peers' = [discovered_peers EXCEPT ![n] = Register(@, peer_ip)]
    /\ UNCHANGED <<event_log, hop_log, manual_peers, now, threads, history>>

\* scan_subnet_for_peers: a host of the subnet accepts on the socket port
ScanFound(n, target) ==
    /\ target \notin get_my_ips(n)
    /\ discovered_peers' = [discovered_peers EXCEPT ![n] = Register(@, target)]
    /\ UNCHANGED <<event_log, hop_log, manual_peers, now, threads, history>>

\* the entries start_peer_reaper deletes
Expired(n) ==
    {ip \in DOMAIN discovered_peers[n] : now - discovered_peers[n][ip] > PEER_TIMEOUT}

\* one pass of start_peer_reaper
Reap(n) ==
    /\ discovered_peers' = [discovered_peers EXCEPT ![n] =
                              [ip \in DOMAIN @ \ Expired(n) |-> @[ip]]]
    /\ UNCHANGED <<event_log, hop_log, manual_peers, now, threads, history>>

\* the ips of the manual list
ManualSet(n) == {manual_peers[n][i] : i \in DOMAIN manual_peers[n]}

\* mutant: POST /api/peers appends without looking
add_peer_appends(n, ip) ==
    /\ manual_peers' = [manual_peers EXCEPT ![n] = Append(@, ip)]
    /\ discovered_peers' = [discovered_peers EXCEPT ![n] = Register(@, ip)]
    /\ last_resp' = Response("add_peer", n, "", 200)
    /\ UNCHANGED <<event_log, hop_log, now, threads, created, epoch_created,
                   rounds, sent, nsent, origin, verified>>

\* POST /api/peers with a non-empty ip
add_peer(n, ip) ==
    /\ manual_peers' = [manual_peers EXCEPT ![n] =
                          IF ip \in ManualSet(n) THEN @ ELSE Append(@, ip)]
    /\ discovered_peers' = [discovered_peers EXCEPT ![n] = Register(@, ip)]
    /\ last_resp' = Response("add_peer", n, "", 200)
    /\ UNCHANGED <<event_log, hop_log, now, threads, created, epoch_created,
                   rounds, sent, nsent, origin, verified>>

\* list.remove(x): the first occurrence goes
RemoveFirst(seq, x) ==
    IF \E i \in DOMAIN seq : seq[i] = x
    THEN LET k == CHOOSE i \in DOMAIN seq :
                     seq[i] = x /\ \A j \in 1..(i - 1) : seq[j] # x
         IN  SubSeq(seq, 1, k - 1) \o SubSeq(seq, k + 1, Len(seq))
    ELSE seq

\* DELETE /api/peers/<ip>; the response is recorded with the ip of the URL
remove_peer(n, ip) ==
    /\ manual_peers' = [manual_peers EXCEPT ![n] = RemoveFirst(@, ip)]
    /\ discovered_peers' = [discovered_peers EXCEPT ![n] =
                              [x \in DOMAIN @ \ {ip} |-> @[x]]]
    /\ last_resp' = Response("remove_peer", n, ip, 200)
    /\ UNCHANGED <<event_log, hop_log, now, threads, created, epoch_created,
                   rounds, sent, nsent, origin, verified>>

\* mutant: the discovered list is the whole table
get_peers_unfiltered(n) ==
    [known_peers      |-> get_all_known_peers(n),
     discovered_peers |-> DOMAIN discovered_peers[n],
     manual_peers     |-> manual_peers[n]]

\* GET /api/peers: the fields computed from the link registry
get_peers(n) ==
    [known_peers      |-> get_all_known_peers(n),
     discovered_peers |-> {ip \in DOMAIN discovered_peers[n] :
                              now - discovered_peers[n][ip] < PEER_TIMEOUT},
     manual_peers     |-> manual_peers[n]]

\* build_keepalive_packet: no event id
KeepalivePacket(n) == [NoPacket EXCEPT !.device_id = MY_DEVICE_ID(n)]

\* start_tcp_keepalive: `for peer_ip in get_all_known_peers()`
KeepalivePeers(n) ==
    LET known == get_all_known_peers(n)
    IN  /\ known # {}
        /\ threads' = Add(Thread("keepalive", n, "send", KeepalivePacket(n), "",
                                 known, "", "", 0))
        /\ UNCHANGED <<event_log, hop_log, registry, history>>

\* connect, sendall, close succeed; the peer's entry is refreshed
KeepaliveSend(t, peer_ip) ==
    /\ t.kind = "keepalive" /\ t.pc = "send"
    /\ peer_ip \in t.todo
    /\ threads' = PushNext(t, peer_ip,
                      SetToBag({Frame(peer_ip, t.node, t.packet)}))
    /\ discovered_peers' = [discovered_peers EXCEPT ![t.node] = Register(@, peer_ip)]
    /\ sent' = sent \cup {[src |-> t.node, dst |-> peer_ip, packet |-> t.packet,
                           via |-> t.kind, round |-> 0]}
    /\ UNCHANGED <<event_log, hop_log, manual_peers, now, created, epoch_created,
                   rounds, nsent, origin, verified, last_resp>>

\* connect or sendall raised: logged at debug, next peer
KeepaliveFail(t, peer_ip) ==
    /\ t.kind = "keepalive" /\ t.pc = "send"
    /\ peer_ip \in t.todo
    /\ threads' = PushNext(t, peer_ip, EmptyBag)
    /\ UNCHANGED <<event_log, hop_log, registry, history>>

\* ------------------------------------------------------------------------
\* Clients outside the mesh
\* ------------------------------------------------------------------------

\* some host at `ip` connects to the node's socket and writes one alert frame
Inject(n, ip, packet) ==
    /\ threads' = Add(Frame(n, ip, packet))
    /\ UNCHANGED <<event_log, hop_log, registry, created, epoch_created, rounds,
                   sent, nsent, origin, verified, last_resp>>

\* ------------------------------------------------------------------------
\* Specifications
\* ------------------------------------------------------------------------

\* A thread that has a record_hop call or hop_log.clear() as its next step.
\* In the specifications below such a thread runs first: these steps only
\* write hop_log, which no other step of these specifications reads, so the
\* place of that write among the steps of other threads changes nothing
\* else.
HopWritePending == \E t \in Running : t.pc \in {"hop", "rec", "hops"}

\* a step of a thread that exists
Step(A) == ~HopWritePending /\ A /\ UNCHANGED requests

\* a step that only writes hop_log
HopStep(A) == A /\ UNCHANGED requests

\* a new request, while the budget of the run lasts
Request(budget, A) ==
    ~HopWritePending /\ requests < budget /\ A /\ requests' = requests + 1

\* --- the flood of broadcast events over a mesh whose TCP sends all succeed

\* POST /api/broadcast at node A, by the dashboard or any other client, once
\* the mesh is quiet
OriginateAtA ==
    /\ threads = EmptyBag
    /\ \E eid \in EventIds, d \in ClientDeviceIds("A") : Broadcast("A", eid, d, FALSE)

\* the steps of the threads that exist
FloodProgress ==
    \/ HopStep(\E t \in Running : RecordHopIn(t))
    \/ HopStep(\E t \in Running : RelayRecord(t))
    \/ Step(\E t \in Running : Accept(t))
    \/ Step(\E t \in Running : IngestDuplicate(t))
    \/ Step(\E t \in Running : IngestFresh(t))
    \/ Step(\E t \in Running : RelayPeers(t))
    \/ Step(\E t \in Running : \E p \in t.todo : RelaySend(t, p))

NextFlood ==
    \/ Request(MaxBroadcasts, OriginateAtA)
    \/ FloodProgress

SpecFlood == Init /\ [][NextFlood]_vars

\* connection threads and request threads are OS threads that block on
\* nothing but a lock or a socket with a timeout: a thread that can take a
\* step eventually takes it
FairFlood == SpecFlood /\ WF_vars(FloodProgress)

\* --- one node under concurrent requests

\* Node A under study, alone or with B as its one peer: it receives requests
\* from HTTP clients and frames from B; what it relays stays on the wire,
\* and a peer it pushes a sync to does not know the event
InitNode ==
    /\ Init
    /\ \A n \in Nodes \ {"A"} : discovered_peers[n] = EmptyFn
    /\ DOMAIN discovered_peers["A"] \subseteq {"B"}

\* what a peer at `ip` relays: its own device id, a hop count of 1 or more
PeerPackets(ip) ==
    [event_id : EventIds, device_id : {MY_DEVICE_ID(ip)}, hop_count : {1},
     is_authorized_node : BOOLEAN]

\* bodies of POST /sync
SyncVerifiers == {"", MY_DEVICE_ID("B"), MY_DEVICE_ID("C")}
SyncTrusts == {"", "LOW", "MEDIUM", "HIGH"}

\* the threads of node A
AtA == {t \in Running : t.node = "A"}

Next ==
    \/ Request(MaxRequests, \E eid \in EventIds, d \in ClientDeviceIds("A") :
                                Broadcast("A", eid, d, FALSE))
    \/ Request(MaxRequests, \E f \in SUBSET RequiredFields : BroadcastInvalid("A", f))
    \/ Request(MaxRequests, \E p \in PeerPackets("B") : Inject("A", "B", p))
    \/ Request(MaxRequests, \E eid \in EventIds : VerifyLocked("A", eid))
    \/ Request(MaxRequests, \E eid \in EventIds : VerifyUnknown("A", eid))
    \/ Request(MaxRequests, \E eid \in EventIds : VerifyOwn("A", eid))
    \/ Request(MaxRequests, \E eid \in EventIds, v \in SyncVerifiers, tr \in SyncTrusts :
                                Sync("A", eid, v, tr))
    \/ Request(MaxRequests, \E eid \in EventIds : dismiss_event("A", eid))
    \/ Request(MaxRequests, \E eid \in EventIds : authorize_event("A", eid))
    \/ Request(MaxRequests, ClearEvents("A"))
    \/ HopStep(\E t \in AtA : RecordHopIn(t))
    \/ HopStep(\E t \in AtA : RelayRecord(t))
    \/ HopStep(\E t \in AtA : ClearHops(t))
    \/ Step(\E t \in AtA : Accept(t))
    \/ Step(\E t \in AtA : IngestDuplicate(t))
    \/ Step(\E t \in AtA : IngestFresh(t))
    \/ Step(\E t \in AtA : RelayPeers(t))
    \/ Step(\E t \in AtA : \E p \in t.todo : RelaySend(t, p))
    \/ Step(\E t \in AtA : VerifyReread(t))
    \/ Step(\E t \in AtA : VerifySpawn(t))
    \/ Step(\E t \in AtA : SyncRespond(t))
    \/ Step(\E t \in AtA : PushPeers(t))
    \/ Step(\E t \in AtA : \E p \in t.todo : PushSync(t, p))

Spec == InitNode /\ [][Next]_vars

\* --- the trust of one record under a long sequence of requests

\* Node A, with no peer in reach, serves one client that sends its requests
\* one after another; each request runs to its response before the next
\* arrives
InitTrust ==
    /\ InitNode
    /\ discovered_peers["A"] = EmptyFn

\* device ids of verifiers elsewhere in the mesh
Verifier(i) == "DEVICE-V" \o ToString(i)
Verifiers == {Verifier(i) : i \in 1..HighChecks}

\* The verifier of the next sync: the first that the record does not hold
\* yet (the trust depends on the number of verifiers only), one it holds,
\* the device of the stored packet, or none
NextVerifiers(n, eid) ==
    LET held == IF eid \in DOMAIN event_log[n]
                THEN event_log[n][eid].cross_checks ELSE {}
        fresh == {i \in 1..HighChecks : Verifier(i) \notin held}
    IN  {"", "DEVICE-X", Verifier(1)} \cup
        {Verifier(i) : i \in {j \in fresh : \A k \in fresh : j <= k}}

\* a new request once node A is idle
TrustRequest(A) ==
    /\ AtA = {}
    /\ requests < MaxTrustRequests
    /\ A
    /\ requests' = requests + 1

NextTrust ==
    \/ TrustRequest(\E eid \in EventIds, auth \in BOOLEAN :
                        Broadcast("A", eid, "DEVICE-X", auth))
    \/ TrustRequest(\E eid \in EventIds : VerifyLocked("A", eid))
    \/ TrustRequest(\E eid \in EventIds : \E v \in NextVerifiers("A", eid),
                                              tr \in SyncTrusts :
                        Sync("A", eid, v, tr))
    \/ TrustRequest(\E eid \in EventIds : dismiss_event("A", eid))
    \/ TrustRequest(\E eid \in EventIds : authorize_event("A", eid))
    \/ TrustRequest(ClearEvents("A"))
    \/ HopStep(\E t \in AtA : ClearHops(t))
    \/ Step(\E t \in AtA : IngestDuplicate(t))
    \/ Step(\E t \in AtA : IngestFresh(t))
    \/ Step(\E t \in AtA : RelayPeers(t))
    \/ Step(\E t \in AtA : VerifyReread(t))
    \/ Step(\E t \in AtA : VerifySpawn(t))
    \/ Step(\E t \in AtA : SyncRespond(t))
    \/ Step(\E t \in AtA : PushPeers(t))

SpecTrust == InitTrust /\ [][NextTrust]_vars

\* --- verification of a broadcast event over the mesh

\* The dashboard of node A broadcasts with the node's own device id; a user
\* at another node presses "verify" once the mesh has gone quiet. All TCP
\* sends and sync pushes are delivered.
NextMesh ==
    \/ Request(MaxBroadcasts, \E eid \in EventIds :
                                  Broadcast("A", eid, MY_DEVICE_ID("A"), FALSE))
    \/ Request(MaxBroadcasts + MaxVerifies,
               \E n \in Nodes \ {"A"}, eid \in EventIds :
                   /\ threads = EmptyBag
                   /\ verified[eid][n] = 0
                   /\ VerifyLocked(n, eid))
    \/ HopStep(\E t \in Running : RecordHopIn(t))
    \/ HopStep(\E t \in Running : RelayRecord(t))
    \/ Step(\E t \in Running : Accept(t))
    \/ Step(\E t \in Running : IngestDuplicate(t))
    \/ Step(\E t \in Running : IngestFresh(t))
    \/ Step(\E t \in Running : RelayPeers(t))
    \/ Step(\E t \in Running : \E p \in t.todo : RelaySend(t, p))
    \/ Step(\E t \in Running : VerifyReread(t))
    \/ Step(\E t \in Running : VerifySpawn(t))
    \/ Step(\E t \in Running : SyncRespond(t))
    \/ Step(\E t \in Running : PushPeers(t))
    \/ Step(\E t \in Running : \E p \in t.todo : PushSync(t, p))

SpecMesh == Init /\ [][NextMesh]_vars

\* --- the link registry of one node while time passes

\* the moments the registry is looked at: the start, then second by second
\* from just under the timeout after the start
TickSteps == IF now = 0 THEN {PEER_TIMEOUT - 1} ELSE {1}

\* Node A hears hellos, scans, accepts connections (also from its own
\* address) and serves /api/peers, while the reaper and the keepalive loop
\* run; what A sends stays on the wire
NextRegistry ==
    \/ \E d \in TickSteps : now + d <= MaxTime /\ Step(Tick(d))
    \/ Request(MaxRegistryOps, \E ip \in Nodes : Hello("A", ip))
    \/ Request(MaxRegistryOps, \E ip \in Nodes : ScanFound("A", ip))
    \/ Request(MaxRegistryOps, \E ip \in Nodes : add_peer("A", ip))
    \/ Request(MaxRegistryOps, \E ip \in Nodes : remove_peer("A", ip))
    \/ Request(MaxRegistryOps, \E ip \in Nodes : Inject("A", ip, KeepalivePacket(ip)))
    \/ Request(MaxRegistryOps, KeepalivePeers("A"))
    \/ Step(Reap("A"))
    \/ Step(\E t \in AtA : \E p \in t.todo : KeepaliveSend(t, p))
    \/ Step(\E t \in AtA : \E p \in t.todo : KeepaliveFail(t, p))
    \/ Step(\E t \in AtA : Accept(t))

SpecRegistry == InitNode /\ [][NextRegistry]_vars

\* --- the hop log of one node under concurrent connection threads

\* a step of any thread, in any order
FreeStep(A) == A /\ UNCHANGED requests

\* a new request or connection at any moment
FreeRequest(budget, A) == requests < budget /\ A /\ requests' = requests + 1

\* the frame a connection from `ip` carries: both name B's device as the
\* sender, with hop 1 over the connection from B and hop 2 over the one
\* from C
HopPacket(ip, eid) ==
    [event_id |-> eid, device_id |-> MY_DEVICE_ID("B"),
     hop_count |-> IF ip = "B" THEN 1 ELSE 2, is_authorized_node |-> FALSE]

\* Node A receives frames over connections from B and C, broadcasts and
\* clears, while the clock runs; every thread step interleaves with every
\* other (no step has priority here)
NextHops ==
    \/ FreeRequest(MaxHopRequests, Tick(1))
    \/ FreeRequest(MaxHopRequests, \E ip \in {"B", "C"}, eid \in EventIds :
                                       Inject("A", ip, HopPacket(ip, eid)))
    \/ FreeRequest(MaxHopRequests, \E eid \in EventIds :
                                       Broadcast("A", eid, MY_DEVICE_ID("A"), FALSE))
    \/ FreeRequest(MaxHopRequests, ClearEvents("A"))
    \/ FreeStep(\E t \in AtA : Accept(t))
    \/ FreeStep(\E t \in AtA : RecordHopIn(t))
    \/ FreeStep(\E t \in AtA : IngestDuplicate(t))
    \/ FreeStep(\E t \in AtA : IngestFresh(t))
    \/ FreeStep(\E t \in AtA : RelayPeers(t))
    \/ FreeStep(\E t \in AtA : \E p \in t.todo : RelaySend(t, p))
    \/ FreeStep(\E t \in AtA : RelayRecord(t))
    \/ FreeStep(\E t \in AtA : ClearHops(t))

SpecHops == InitTrust /\ [][NextHops]_vars

\* --- one record under repeated operator actions

\* a new request once node A is idle
OperatorRequest(A) ==
    /\ AtA = {}
    /\ requests < MaxOperatorRequests
    /\ A
    /\ requests' = requests + 1

\* One event reaches node A, from peer B or by a broadcast; then the operator
\* dismisses, verifies and authorizes it in any order, one request after
\* the other
NextOperator ==
    \/ OperatorRequest(requests = 0 /\ \E p \in PeerPackets("B") : Inject("A", "B", p))
    \/ OperatorRequest(requests = 0 /\ \E eid \in EventIds :
                                           Broadcast("A", eid, "DEVICE-X", FALSE))
    \/ OperatorRequest(requests > 0 /\ \E eid \in EventIds : dismiss_event("A", eid))
    \/ OperatorRequest(requests > 0 /\ \E eid \in EventIds : VerifyLocked("A", eid))
    \/ OperatorRequest(requests > 0 /\ \E eid \in EventIds : authorize_event("A", eid))
    \/ HopStep(\E t \in AtA : RecordHopIn(t))
    \/ HopStep(\E t \in AtA : RelayRecord(t))
    \/ Step(\E t \in AtA : Accept(t))
    \/ Step(\E t \in AtA : IngestFresh(t))
    \/ Step(\E t \in AtA : RelayPeers(t))
    \/ Step(\E t \in AtA : \E p \in t.todo : RelaySend(t, p))
    \/ Step(\E t \in AtA : VerifyReread(t))
    \/ Step(\E t \in AtA : VerifySpawn(t))
    \/ Step(\E t \in AtA : PushPeers(t))
    \/ Step(\E t \in AtA : \E p \in t.todo : PushSync(t, p))

SpecOperator == InitNode /\ [][NextOperator]_vars

\* --- a verification after nodes lost the event or joined late

\* a request that arrives once the mesh has gone quiet
QuietRequest(A) ==
    /\ threads = EmptyBag
    /\ requests < MaxRejoinRequests
    /\ A
    /\ requests' = requests + 1

\* A and B know each other and may know C; C has heard from nobody yet (it
\* registers the nodes that connect to it)
InitRejoin ==
    /\ Init
    /\ "B" \in DOMAIN discovered_peers["A"]
    /\ "A" \in DOMAIN discovered_peers["B"]
    /\ discovered_peers["C"] = EmptyFn

\* The dashboard of node A broadcasts with the node's own device id. Once
\* the flood is over, the operator of C may clear the node's tables and B
\* may hear the hello of C; a user at B presses "verify". All TCP sends and
\* sync pushes are delivered.
NextRejoin ==
    \/ QuietRequest(requests = 0 /\ \E eid \in EventIds :
                                      Broadcast("A", eid, MY_DEVICE_ID("A"), FALSE))
    \/ QuietRequest(requests > 0 /\ ClearEvents("C"))
    \/ QuietRequest(requests > 0 /\ Hello("B", "C"))
    \/ QuietRequest(requests > 0 /\ \E eid \in EventIds : VerifyLocked("B", eid))
    \/ HopStep(\E t \in Running : RecordHopIn(t))
    \/ HopStep(\E t \in Running : RelayRecord(t))
    \/ HopStep(\E t \in Running : ClearHops(t))
    \/ Step(\E t \in Running : Accept(t))
    \/ Step(\E t \in Running : IngestDuplicate(t))
    \/ Step(\E t \in Running : IngestFresh(t))
    \/ Step(\E t \in Running : RelayPeers(t))
    \/ Step(\E t \in Running : \E p \in t.todo : RelaySend(t, p))
    \/ Step(\E t \in Running : VerifyReread(t))
    \/ Step(\E t \in Running : VerifySpawn(t))
    \/ Step(\E t \in Running : SyncRespond(t))
    \/ Step(\E t \in Running : PushPeers(t))
    \/ Step(\E t \in Running : \E p \in t.todo : PushSync(t, p))

SpecRejoin == InitRejoin /\ [][NextRejoin]_vars

\* --- the locks a thread takes on each path through the code

Locks == {"event_lock", "hop_lock", "discovery_lock", "peers_lock"}

\* `with lock:` around code that takes no lock
With(lock) == <<[op |-> "acquire", lock |-> lock], [op |-> "release", lock |-> lock]>>

\* the body of a loop, run k times
RECURSIVE Times(_, _)
Times(ops, k) == IF k = 0 THEN <<>> ELSE ops \o Times(ops, k - 1)

get_all_known_peers_locks == With("discovery_lock") \o With("peers_lock")

record_hop_locks == With("hop_lock")

\* relay_to_peers with k peers reached: the peer list, then a record_hop
\* after each send
relay_to_peers_locks(k) == get_all_known_peers_locks \o Times(record_hop_locks, k)

\* handle_packet: record_hop for a frame from a peer, the critical section,
\* and the relay unless the event is a duplicate
handle_packet_locks(from_peer, duplicate, k) ==
    (IF from_peer THEN record_hop_locks ELSE <<>>)
        \o With("event_lock")
        \o (IF duplicate THEN <<>> ELSE relay_to_peers_locks(k))

\* handle_connection: active_connections, the registry, the frames, and
\* active_connections again in `finally`
handle_connection_locks(frames) ==
    With("peers_lock") \o With("discovery_lock") \o frames \o With("peers_lock")

get_peers_locks ==
    With("peers_lock") \o With("discovery_lock") \o With("peers_lock")
        \o get_all_known_peers_locks

add_peer_locks ==
    With("peers_lock") \o With("discovery_lock") \o get_all_known_peers_locks

\* mutant: get_hops reads the event table while it still holds hop_lock
get_hops_locks_nested ==
    <<[op |-> "acquire", lock |-> "hop_lock"],
      [op |-> "acquire", lock |-> "event_lock"],
      [op |-> "release", lock |-> "event_lock"],
      [op |-> "release", lock |-> "hop_lock"]>> \o With("discovery_lock")

get_hops_locks == With("hop_lock") \o With("event_lock") \o With("discovery_lock")

verify_event_locks(k) == With("event_lock") \o relay_to_peers_locks(k)

clear_events_locks == With("event_lock") \o With("hop_lock")

\* peers reached in one relay round or keepalive round of a path
PathPeers == 1

\* The paths through the code, by the name of the thread's entry point:
\* connection threads, background threads and HTTP handlers. A handler that
\* answers 404 or 400 inside its critical section takes the same locks as
\* "dismiss_event".
LockPathNames ==
    {"handle_connection:keepalive", "handle_connection:duplicate",
     "handle_connection:fresh", "start_discovery_listener", "start_peer_reaper",
     "start_tcp_keepalive", "scan_subnet_for_peers", "get_events",
     "get_pending_verifications", "broadcast", "broadcast:duplicate", "get_peers",
     "add_peer", "remove_peer", "get_hops", "verify_event", "push_sync",
     "sync_event_verification", "dismiss_event", "authorize_event",
     "clear_events", "cluster_events"}

LockPath(name) ==
    CASE name = "handle_connection:keepalive" -> handle_connection_locks(<<>>)
      [] name = "handle_connection:duplicate" ->
            handle_connection_locks(handle_packet_locks(TRUE, TRUE, 0))
      [] name = "handle_connection:fresh" ->
            handle_connection_locks(handle_packet_locks(TRUE, FALSE, PathPeers))
      [] name = "broadcast" -> handle_packet_locks(FALSE, FALSE, PathPeers)
      [] name = "broadcast:duplicate" -> handle_packet_locks(FALSE, TRUE, 0)
      [] name = "start_tcp_keepalive" ->
            get_all_known_peers_locks \o Times(With("discovery_lock"), PathPeers)
      [] name \in {"start_discovery_listener", "start_peer_reaper",
                   "scan_subnet_for_peers"} -> With("discovery_lock")
      [] name = "get_peers" -> get_peers_locks
      [] name \in {"add_peer", "remove_peer"} -> add_peer_locks
      [] name = "get_hops" -> get_hops_locks
      [] name = "verify_event" -> verify_event_locks(PathPeers)
      [] name = "push_sync" -> get_all_known_peers_locks
      [] name = "clear_events" -> clear_events_locks
      [] OTHER -> With("event_lock")

\* a thread on the path `name`, `pos` lock operations behind it
LockThread(n, name, pos) == Thread("locks", n, "run", NoPacket, "", {}, name, "", pos)

\* the locks a thread holds: acquired and not released so far
HeldBy(t) ==
    LET path == LockPath(t.cur)
    IN  {l \in Locks : \E i \in 1..t.count :
            /\ path[i] = [op |-> "acquire", lock |-> l]
            /\ \A j \in (i + 1)..t.count : path[j] # [op |-> "release", lock |-> l]}

LockThreads(n) == {t \in Running : t.kind = "locks" /\ t.node = n}

\* a thread is started on one of the paths
StartPath(n, name) ==
    /\ threads' = Add(LockThread(n, name, 0))
    /\ UNCHANGED <<event_log, hop_log, registry, history>>

\* the next lock operation of thread t, if it has one
NextOp(t) ==
    IF t.count < Len(LockPath(t.cur)) THEN LockPath(t.cur)[t.count + 1]
    ELSE [op |-> "return", lock |-> ""]

\* threading.Lock.acquire: granted when no thread of the process holds the
\* lock (the lock is not reentrant)
LockAcquire(t) ==
    /\ t.kind = "locks" /\ NextOp(t).op = "acquire"
    /\ \A u \in LockThreads(t.node) : NextOp(t).lock \notin HeldBy(u)
    /\ threads' = Replace(t, [t EXCEPT !.count = @ + 1])
    /\ UNCHANGED <<event_log, hop_log, registry, history>>

\* the end of a `with` block
LockRelease(t) ==
    /\ t.kind = "locks" /\ NextOp(t).op = "release"
    /\ threads' = Replace(t, [t EXCEPT !.count = @ + 1])
    /\ UNCHANGED <<event_log, hop_log, registry, history>>

\* the path is over
LockReturn(t) ==
    /\ t.kind = "locks" /\ NextOp(t).op = "return"
    /\ threads' = Remove(t)
    /\ UNCHANGED <<event_log, hop_log, registry, history>>

\* Threads of node A, at most MaxLockThreads in a run, each on any path
NextLocks ==
    \/ FreeRequest(MaxLockThreads, \E name \in LockPathNames : StartPath("A", name))
    \/ FreeStep(\E t \in AtA : LockAcquire(t))
    \/ FreeStep(\E t \in AtA : LockRelease(t))
    \/ FreeStep(\E t \in AtA : LockReturn(t))

SpecLocks == InitTrust /\ [][NextLocks]_vars

\* --- the lines of inbound connections

\* Peer B connects to node A, at most MaxConnections times, and writes a
\* stream of lines each time; every send of A succeeds
NextConn ==
    \/ FreeRequest(MaxConnections, \E s \in StreamNames : Connect("A", "B", s))
    \/ FreeStep(\E t \in AtA : ConnAccept(t))
    \/ FreeStep(\E t \in AtA : ConnLine(t))
    \/ FreeStep(\E t \in AtA : RecordHopIn(t))
    \/ FreeStep(\E t \in AtA : IngestDuplicate(t))
    \/ FreeStep(\E t \in AtA : IngestFresh(t))
    \/ FreeStep(\E t \in AtA : RelayPeers(t))
    \/ FreeStep(\E t \in AtA : \E p \in t.todo : RelaySend(t, p))
    \/ FreeStep(\E t \in AtA : RelayRecord(t))

SpecConn == InitNode /\ [][NextConn]_vars

\* --- relay rounds with peers that cannot be reached

\* node A knows any of B and C; the other nodes are not started
InitFail ==
    /\ Init
    /\ \A n \in Nodes \ {"A"} : discovered_peers[n] = EmptyFn

\* a new request once node A is idle
FailRequest(A) ==
    /\ AtA = {}
    /\ requests < MaxFailRequests
    /\ A
    /\ requests' = requests + 1

\* Node A takes broadcasts, frames from B and verifications, one after the
\* other; every connect or send to a peer may fail, and so may every sync
\* push
NextFail ==
    \/ FailRequest(\E eid \in EventIds : Broadcast("A", eid, "DEVICE-X", FALSE))
    \/ FailRequest(\E p \in PeerPackets("B") : Inject("A", "B", p))
    \/ FailRequest(\E eid \in EventIds : VerifyLocked("A", eid))
    \/ HopStep(\E t \in AtA : RecordHopIn(t))
    \/ HopStep(\E t \in AtA : RelayRecord(t))
    \/ Step(\E t \in AtA : Accept(t))
    \/ Step(\E t \in AtA : IngestDuplicate(t))
    \/ Step(\E t \in AtA : IngestFresh(t))
    \/ Step(\E t \in AtA : RelayPeers(t))
    \/ Step(\E t \in AtA : \E p \in t.todo : RelaySend(t, p))
    \/ Step(\E t \in AtA : \E p \in t.todo : RelaySendFail(t, p))
    \/ Step(\E t \in AtA : VerifyReread(t))
    \/ Step(\E t \in AtA : VerifySpawn(t))
    \/ Step(\E t \in AtA : PushPeers(t))
    \/ Step(\E t \in AtA : \E p \in t.todo : PushSync(t, p))
    \/ Step(\E t \in AtA : \E p \in t.todo : PushFail(t, p))

SpecFail == InitFail /\ [][NextFail]_vars

\* --- the targets node A dials

\* Node A, whose own address gets into its registry by an inbound
\* connection, a hello, a scan or a manual add, broadcasts, verifies and runs
\* its keepalive loop, one thing after the other; what A sends stays on the
\* wire
\* a new request, datagram or keepalive round once node A is idle
DialRequest(A) ==
    /\ AtA = {}
    /\ requests < MaxDialOps
    /\ A
    /\ requests' = requests + 1

NextDial ==
    \/ DialRequest(\E ip \in Nodes : Hello("A", ip))
    \/ DialRequest(\E ip \in Nodes : ScanFound("A", ip))
    \/ DialRequest(\E ip \in Nodes : add_peer("A", ip))
    \/ DialRequest(\E ip \in Nodes : Inject("A", ip, KeepalivePacket(ip)))
    \/ DialRequest(KeepalivePeers("A"))
    \/ DialRequest(\E eid \in EventIds :
                               Broadcast("A", eid, "DEVICE-X", FALSE))
    \/ DialRequest(\E eid \in EventIds : VerifyLocked("A", eid))
    \/ Step(\E t \in AtA : \E p \in t.todo : KeepaliveSend(t, p))
    \/ HopStep(\E t \in AtA : RelayRecord(t))
    \/ Step(\E t \in AtA : Accept(t))
    \/ Step(\E t \in AtA : IngestFresh(t))
    \/ Step(\E t \in AtA : RelayPeers(t))
    \/ Step(\E t \in AtA : \E p \in t.todo : RelaySend(t, p))
    \/ Step(\E t \in AtA : VerifyReread(t))
    \/ Step(\E t \in AtA : VerifySpawn(t))
    \/ Step(\E t \in AtA : PushPeers(t))
    \/ Step(\E t \in AtA : \E p \in t.todo : PushSync(t, p))

SpecDial == InitNode /\ [][NextDial]_vars

\* ------------------------------------------------------------------------
\* Properties
\* ------------------------------------------------------------------------

\* the ips a node's link registry holds, its own excluded: the edges of the
\* directed peer graph
Neighbours(n) ==
    (DOMAIN discovered_peers[n] \cup {manual_peers[n][i] : i \in DOMAIN manual_peers[n]})
        \ get_my_ips(n)

RECURSIVE ReachFrom(_, _)
ReachFrom(S, k) ==
    IF k = 0 THEN S
    ELSE ReachFrom(S \cup UNION {Neighbours(m) \cap Nodes : m \in S}, k - 1)

\* the nodes reachable from n in the directed peer graph
Reach(n) == ReachFrom({n}, Cardinality(Nodes))

Stored(n, eid) == eid \in DOMAIN event_log[n]

\* an alert frame for eid is on a socket, or a thread is still handling or
\* relaying one
InFlight(eid) ==
    \E t \in Running :
        /\ t.kind = "ingest" /\ t.packet.event_id = eid
        /\ (t.ip # "" \/ t.pc \in {"peers", "send", "rec"})

Quiet == threads = EmptyBag

FloodDone(eid) ==
    /\ ~InFlight(eid)
    /\ \A o \in origin[eid] : \A n \in Reach(o.node) : Stored(n, eid)

HopBound ==
    \A n \in Nodes, eid \in EventIds :
        Stored(n, eid) => event_log[n][eid].packet.hop_count <= Cardinality(Nodes) - 1

\* C4: flood termination. With every TCP send succeeding, an event
\* originated at a node is eventually stored at every node reachable from
\* it in the directed peer graph and from then on no frame for it is in
\* flight; the hop_count a node first stores it with is at most N-1.
C4_FloodTermination ==
    /\ []HopBound
    /\ \A eid \in EventIds : (origin[eid] # {}) ~> [](FloodDone(eid))

\* C4 witness: the flood over a chain is over, the last node stored the
\* event with hop_count N-1
C4_Witness ==
    /\ origin["E1"] # {} /\ Quiet
    /\ \A n \in Nodes : Stored(n, "E1")
    /\ \E n \in Nodes : event_log[n]["E1"].packet.hop_count = Cardinality(Nodes) - 1

\* the frames a node wrote to its peers from the relay step of handle_packet
IngestFrames(n, eid) ==
    {f \in sent : f.src = n /\ f.via = "ingest" /\ f.packet.event_id = eid}

\* C9 as claimed: the frame the originating node sends carries hop_count 1
\* and the device_id the client supplied to POST /api/broadcast.
C9_ClientIdOnWire ==
    \A eid \in EventIds : \A o \in origin[eid] : \A f \in IngestFrames(o.node, eid) :
        f.packet.hop_count = 1 /\ f.packet.device_id = o.device_id

\* C9 amended: the frame the originating node sends carries hop_count 1 and
\* the node's own device id, whatever device_id the client supplied.
C9_FirstRelayFrame ==
    \A eid \in EventIds : \A o \in origin[eid] : \A f \in IngestFrames(o.node, eid) :
        f.packet.hop_count = 1 /\ f.packet.device_id = MY_DEVICE_ID(o.node)

\* C9 witness: a client originated an alert under a foreign device id and
\* the node has relayed it
C9_Witness ==
    /\ [node |-> "A", device_id |-> "DEVICE-X"] \in origin["E1"]
    /\ IngestFrames("A", "E1") # {}
    /\ event_log["A"]["E1"].packet.device_id = "DEVICE-X"

\* A and B know each other and nobody else
MutualAB ==
    /\ Neighbours("A") = {"B"}
    /\ Neighbours("B") = {"A"}

\* C10: dedupe loop. With A and B mutually peered and no verify, A's
\* broadcast puts exactly two frames on the wire: A's relay to B with
\* hop_count 1 and B's relay back with hop_count 2, which A drops as a
\* duplicate without relaying.
C10_DedupeLoop ==
    MutualAB =>
        \A eid \in EventIds :
            /\ nsent[eid] <= 2
            /\ rounds["A"][eid].ingest <= 1
            /\ rounds["B"][eid].ingest <= 1
            /\ (origin[eid] # {} /\ Quiet) =>
                  /\ nsent[eid] = 2
                  /\ {<<f.src, f.dst, f.packet.hop_count>> : f \in sent} =
                        {<<"A", "B", 1>>, <<"B", "A", 2>>}
                  /\ MY_DEVICE_ID("B") \in event_log["A"][eid].devices_reached

\* C10 witness: the loop has closed at A
C10_Witness ==
    /\ MutualAB /\ Quiet /\ nsent["E1"] = 2
    /\ MY_DEVICE_ID("B") \in event_log["A"]["E1"].devices_reached

\* C1 as claimed: over the whole run a node creates at most one record for
\* an event_id, DELETE /api/events included in the run.
C1_OneRecordEver ==
    \A n \in Nodes, eid \in EventIds : created[n][eid] <= 1

\* handle_packet creates no record for eid at n in this step
NoCreation(n, eid) == created'[n][eid] = created[n][eid]

\* C1 amended: a node creates a record for an event_id only while it stores
\* none, so exactly one is created between two clear-alls; an arrival while
\* the record is stored creates nothing and only adds to devices_reached.
C1_OneRecordPerEpoch ==
    /\ [](\A n \in Nodes, eid \in EventIds :
            /\ epoch_created[n][eid] <= 1
            /\ Stored(n, eid) <=> epoch_created[n][eid] = 1)
    /\ [][\A n \in Nodes, eid \in EventIds :
            Stored(n, eid) =>
               /\ NoCreation(n, eid)
               /\ Stored(n, eid)' =>
                     /\ event_log'[n][eid].packet = event_log[n][eid].packet
                     /\ event_log'[n][eid].first_seen = event_log[n][eid].first_seen
                     /\ event_log[n][eid].devices_reached
                            \subseteq event_log'[n][eid].devices_reached]_vars

\* C1 witness: the event arrived again after a clear-all and was stored a
\* second time
C1_Witness ==
    /\ created["A"]["E1"] = 2
    /\ epoch_created["A"]["E1"] = 1
    /\ Stored("A", "E1")

\* the handle_packet threads of node n that stored eid and have not yet
\* called relay_to_peers
AboutToRelay(n, eid) ==
    {t \in Running : /\ t.kind = "ingest" /\ t.node = n /\ t.pc = "peers"
                     /\ t.packet.event_id = eid}

AtLock(n, eid) ==
    {t \in Running : /\ t.kind = "ingest" /\ t.node = n /\ t.pc = "lock"
                     /\ t.packet.event_id = eid}

\* C2: of the threads that ingest the same fresh event_id concurrently,
\* exactly one creates the record and exactly that one relays: between two
\* clear-alls one record is created, and every call of relay_to_peers from
\* handle_packet belongs to a thread that created a record.
C2_OneCreatorOneRelay ==
    \A n \in Nodes, eid \in EventIds :
        /\ epoch_created[n][eid] <= 1
        /\ rounds[n][eid].ingest
             + BagCardinality([t \in AboutToRelay(n, eid) |-> threads[t]])
             = created[n][eid]

\* C2 witness: one thread has stored the event and is about to relay it
\* while another thread with the same event_id waits at the event lock
C2_Witness ==
    /\ AboutToRelay("A", "E1") # {}
    /\ AtLock("A", "E1") # {}
    /\ created["A"]["E1"] = 1

\* the relay rounds (calls of relay_to_peers) of node n in which a frame for
\* eid was written to a peer
SendingRounds(n, eid, via) ==
    {f.round : f \in {g \in sent : /\ g.src = n /\ g.packet.event_id = eid
                                      /\ g.via \in via}}

OwnBroadcast(n, eid) ==
    /\ Stored(n, eid)
    /\ event_log[n][eid].packet.hop_count = 0
    /\ \E o \in origin[eid] :
          o.node = n /\ o.device_id = event_log[n][eid].packet.device_id

\* a POST /verify request for eid is handled at n in this step
VerifyRequest(n, eid) ==
    VerifyUnknown(n, eid) \/ VerifyOwn(n, eid) \/ VerifyLocked(n, eid)

\* C7: a POST /verify on the node that originated the event is answered 400,
\* leaves the record unchanged and starts neither a re-broadcast nor a sync.
C7_NoSelfVerify ==
    [][\A n \in Nodes, eid \in EventIds :
          (OwnBroadcast(n, eid) /\ VerifyRequest(n, eid)) =>
              /\ last_resp' = Response("verify", n, eid, 400)
              /\ event_log' = event_log
              /\ threads' = threads
              /\ sent' = sent]_vars

\* --- C5 ---------------------------------------------------------------

\* the trust function as the specification states it
TrustFunction(authorized, n) ==
    IF authorized THEN "HIGH"
    ELSE IF n >= 9 THEN "HIGH"
    ELSE IF n >= 2 /\ n < 9 THEN "MEDIUM"
    ELSE "LOW"

\* C5: whenever the event lock is free (every state: a critical section is
\* one step), the trust of each stored record is the trust function of that
\* record's authorized_node and |cross_checks minus {packet.device_id}|,
\* whatever request came last and whatever trust a sync body carried.
C5_TrustIsFunction ==
    \A n \in Nodes : \A eid \in DOMAIN event_log[n] :
        LET entry == event_log[n][eid]
        IN  entry.trust =
                TrustFunction(entry.authorized_node,
                              Cardinality(entry.cross_checks \ {entry.packet.device_id}))

\* a record that nine syncs raised to HIGH without authorization, the
\* device of its packet among its cross_checks, while the handler of a sync
\* whose body said LOW is still to answer
C5_Witness ==
    \E eid \in DOMAIN event_log["A"] :
        LET entry == event_log["A"][eid]
        IN  /\ ~entry.authorized_node
            /\ entry.packet.device_id \in entry.cross_checks
            /\ Cardinality(entry.cross_checks \ {entry.packet.device_id}) >= 9
            /\ entry.trust = "HIGH"
            /\ \E t \in Running : t.kind = "sync" /\ t.node = "A" /\ t.trust = "LOW"

\* --- C6 ---------------------------------------------------------------

\* C6: while a record stays in the table (from its creation to the next
\* clear), no step lowers its trust in the order LOW < MEDIUM < HIGH.
C6_TrustMonotonic ==
    [][\A n \in Nodes : \A eid \in EventIds :
          Stored(n, eid) /\ Stored(n, eid)' =>
              TrustRank(event_log[n][eid].trust') >= TrustRank(event_log[n][eid].trust)]_vars

\* a record that rose to MEDIUM by a local verify and a sync, was dismissed
\* afterwards, and has just received a sync whose body said LOW
C6_Witness ==
    \E eid \in DOMAIN event_log["A"] :
        LET entry == event_log["A"][eid]
        IN  /\ ~entry.authorized_node
            /\ MY_DEVICE_ID("A") \in entry.cross_checks
            /\ entry.dismissed
            /\ entry.trust = "MEDIUM"
            /\ \E t \in Running : t.kind = "sync" /\ t.node = "A" /\ t.trust = "LOW"

\* --- C8 ---------------------------------------------------------------

\* C8: once an event broadcast at A has been verified at the two other
\* nodes and every relay and sync push has been delivered, every node that
\* holds the event has both verifiers in cross_checks, counts two
\* verifications and reports trust MEDIUM.
C8_EscalationConverges ==
    \A eid \in EventIds :
        ( /\ Quiet
          /\ origin[eid] = {[node |-> "A", device_id |-> MY_DEVICE_ID("A")]}
          /\ \A v \in Nodes \ {"A"} : verified[eid][v] > 0 )
        => \A n \in Nodes : Stored(n, eid) =>
               LET entry == event_log[n][eid]
               IN  /\ {MY_DEVICE_ID(v) : v \in Nodes \ {"A"}} \subseteq entry.cross_checks
                   /\ Cardinality(VerifiedChecks(entry)) = 2
                   /\ entry.trust = "MEDIUM"

\* --- C11 --------------------------------------------------------------

\* C11: no stored record has pending_verify and dismissed both true, after
\* any sequence of ingest, verify, dismiss, authorize and sync requests.
C11_PendingExcludesDismissed ==
    \A n \in Nodes : \A eid \in DOMAIN event_log[n] :
        ~(event_log[n][eid].pending_verify /\ event_log[n][eid].dismissed)

\* a record received from a peer (it started pending) that the operator has
\* dismissed
C11_Witness ==
    \E eid \in DOMAIN event_log["A"] :
        LET entry == event_log["A"][eid]
        IN  /\ entry.packet.hop_count > 0
            /\ entry.dismissed
            /\ ~entry.pending_verify
            /\ last_resp = Response("dismiss", "A", eid, 200)

\* --- C12 --------------------------------------------------------------

\* the handle_packet calls about to enter the critical section at n with
\* this packet
CallsAtLock(n, packet) ==
    {t \in Running : t.kind = "ingest" /\ t.pc = "lock" /\ t.node = n
                     /\ t.packet = packet}

\* the step creates the record of eid at n
Creates(n, eid) == ~Stored(n, eid) /\ Stored(n, eid)'

\* the step applies a verify, a dismiss or an authorize to the record
OperatorActs(n, eid) ==
    \/ verified[eid][n]' > verified[eid][n]
    \/ event_log[n][eid].dismissed' /\ ~event_log[n][eid].dismissed
    \/ event_log[n][eid].authorized_node' /\ ~event_log[n][eid].authorized_node
    \/ last_resp' = Response("dismiss", n, eid, 200)
    \/ last_resp' = Response("authorize", n, eid, 200)

\* C12: a record is pending exactly from its creation by a frame from a
\* peer until the first verify, dismiss or authorize on this node: a record
\* created by a local broadcast is not pending; one created from a peer
\* starts pending, with trust LOW unless authorized and with this node and
\* the sender in devices_reached; pending_verify is cleared by an operator
\* action and by nothing else, and no step sets it on an existing record.
C12_PendingLifecycle ==
    [][\A n \in Nodes : \A eid \in EventIds :
          /\ Creates(n, eid) =>
                LET entry == event_log[n][eid]'
                    calls == CallsAtLock(n, entry.packet)
                IN  /\ calls # {}
                    /\ \A t \in calls :
                          /\ entry.pending_verify = (t.ip # "")
                          /\ t.ip # "" =>
                                /\ entry.authorized_node \/ entry.trust = "LOW"
                                /\ {MY_DEVICE_ID(n), t.packet.device_id}
                                       \subseteq entry.devices_reached
          /\ Stored(n, eid) /\ Stored(n, eid)' =>
                /\ event_log[n][eid].pending_verify' => event_log[n][eid].pending_verify
                /\ OperatorActs(n, eid) => ~event_log[n][eid].pending_verify'
                /\ event_log[n][eid].pending_verify /\ ~event_log[n][eid].pending_verify'
                      => OperatorActs(n, eid)]_vars

\* a record from a peer that is still pending after a duplicate frame and a
\* sync, next to the response of a sync
C12_Witness ==
    \E eid \in DOMAIN event_log["A"] :
        LET entry == event_log["A"][eid]
        IN  /\ entry.packet.hop_count > 0
            /\ entry.pending_verify
            /\ entry.trust = "LOW"
            /\ entry.cross_checks # {}
            /\ {MY_DEVICE_ID("A"), entry.packet.device_id} \subseteq entry.devices_reached
            /\ last_resp = Response("sync", "A", eid, 200)

\* --- C13 --------------------------------------------------------------

\* the last_seen of ip at n is older than the timeout, or there is none
Stale(n, ip) ==
    \/ ip \notin DOMAIN discovered_peers[n]
    \/ now - discovered_peers[n][ip] > PEER_TIMEOUT

\* C13 as stated: a stale ip is absent from Known() and from the
\* discovered_peers list of GET /api/peers, manual peers included.
C13_StaleAbsent ==
    \A n \in Nodes : \A ip \in Nodes :
        Stale(n, ip) => /\ ip \notin get_all_known_peers(n)
                        /\ ip \notin get_peers(n).discovered_peers

\* C13 (amended): a stale ip is absent from the discovered_peers list of
\* GET /api/peers, and absent from Known() unless it is in the manual list;
\* a manual peer other than the node itself is in Known() whatever its
\* last_seen.
C13_StaleAbsentUnlessManual ==
    \A n \in Nodes : \A ip \in Nodes :
        /\ Stale(n, ip) => /\ ip \notin get_peers(n).discovered_peers
                           /\ ip \notin ManualSet(n) => ip \notin get_all_known_peers(n)
                           /\ ip \notin ManualSet(n) => ip \notin get_peers(n).known_peers
        /\ ip \in ManualSet(n) \ get_my_ips(n) => ip \in get_all_known_peers(n)

\* B was heard by discovery only and its entry is older than the timeout and
\* not yet reaped, while C is a manual peer whose entry is as old
C13_Witness ==
    /\ "B" \in DOMAIN discovered_peers["A"]
    /\ "B" \notin ManualSet("A")
    /\ now - discovered_peers["A"]["B"] > PEER_TIMEOUT
    /\ "C" \in ManualSet("A")
    /\ Stale("A", "C")

\* --- C14 --------------------------------------------------------------

\* C14: Known() never holds an address of the node itself, also when that
\* address is in the discovered table or in the manual list; no relay,
\* keepalive or sync push loop has the node itself among its targets, and
\* no frame was sent by a node to itself.
C14_SelfExclusion ==
    /\ \A n \in Nodes : get_all_known_peers(n) \cap get_my_ips(n) = {}
    /\ \A n \in Nodes : get_peers(n).known_peers \cap get_my_ips(n) = {}
    /\ \A t \in Running :
          t.pc \in {"send", "rec"} =>
              /\ t.todo \cap get_my_ips(t.node) = {}
              /\ t.cur \notin get_my_ips(t.node)
    /\ \A f \in sent : f.dst \notin get_my_ips(f.src)

\* A's own address is in its discovered table (an inbound connection from
\* itself) and in its manual list, and A has since relayed an alert, sent a
\* keepalive and is pushing a sync
C14_Witness ==
    /\ "A" \in DOMAIN discovered_peers["A"]
    /\ "A" \in ManualSet("A")
    /\ \E f \in sent : f.src = "A" /\ f.via = "ingest"
    /\ \E f \in sent : f.src = "A" /\ f.via = "keepalive"
    /\ \E t \in Running : t.kind = "push" /\ t.node = "A" /\ t.pc = "send"

\* --- C15 --------------------------------------------------------------

\* the (from_device, to_device) pair of an edge
EdgePair(h) == <<h.from_device, h.to_device>>

\* C15: for every event the hop log holds no two edges with the same
\* (from_device, to_device) pair, however the record_hop calls of connection
\* threads and relay loops interleave; a step that keeps the event's edge
\* list only appends to it, so the hop number and the timestamp of an edge
\* stay as first recorded.
C15_HopEdgeDedupe ==
    /\ [](\A n \in Nodes : \A eid \in DOMAIN hop_log[n] :
             \A i, j \in DOMAIN hop_log[n][eid] :
                 EdgePair(hop_log[n][eid][i]) = EdgePair(hop_log[n][eid][j]) => i = j)
    /\ [][\A n \in Nodes : \A eid \in DOMAIN hop_log[n] :
             eid \in DOMAIN hop_log[n]' =>
                 /\ Len(hop_log[n][eid]') >= Len(hop_log[n][eid])
                 /\ SubSeq(hop_log[n][eid]', 1, Len(hop_log[n][eid])) = hop_log[n][eid]]_vars

\* the edge DEVICE-B -> DEVICE-A was recorded with hop 1 at time 0; later a
\* second connection thread called record_hop for the same pair with hop 2
\* and is past it, and a relay edge is in the log as well
C15_Witness ==
    /\ "E1" \in DOMAIN hop_log["A"]
    /\ Len(hop_log["A"]["E1"]) >= 2
    /\ \E i \in DOMAIN hop_log["A"]["E1"] :
          LET h == hop_log["A"]["E1"][i]
          IN  EdgePair(h) = <<MY_DEVICE_ID("B"), MY_DEVICE_ID("A")>>
              /\ h.hop = 1 /\ h.ts = 0
    /\ now > 0
    /\ \E t \in Running : /\ t.kind = "ingest" /\ t.node = "A" /\ t.pc = "lock"
                          /\ t.packet.hop_count = 2
                          /\ t.packet.device_id = MY_DEVICE_ID("B")

\* --- C16 --------------------------------------------------------------

\* C16: POST /authorize on a stored event, whatever its state, leaves it
\* with trust HIGH, pending_verify false and authorized_node true; while the
\* record stays in the table authorized_node stays true and trust stays
\* HIGH under every later verify, sync, dismiss and duplicate ingest.
C16_AuthorizeOverride ==
    /\ [][\A n \in Nodes : \A eid \in EventIds :
             Stored(n, eid) /\ authorize_event(n, eid) =>
                 /\ Stored(n, eid)'
                 /\ event_log[n][eid].trust' = "HIGH"
                 /\ ~event_log[n][eid].pending_verify'
                 /\ event_log[n][eid].authorized_node'
                 /\ last_resp' = Response("authorize", n, eid, 200)]_vars
    /\ [][\A n \in Nodes : \A eid \in EventIds :
             Stored(n, eid) /\ Stored(n, eid)' /\ event_log[n][eid].authorized_node =>
                 /\ event_log[n][eid].authorized_node'
                 /\ event_log[n][eid].trust' = "HIGH"]_vars
    /\ [](\A n \in Nodes : \A eid \in DOMAIN event_log[n] :
             event_log[n][eid].authorized_node => event_log[n][eid].trust = "HIGH")

\* a record that arrived from a peer without authorization, was authorized
\* here and dismissed afterwards: still HIGH
C16_Witness ==
    \E eid \in DOMAIN event_log["A"] :
        LET entry == event_log["A"][eid]
        IN  /\ entry.packet.hop_count > 0
            /\ ~entry.packet.is_authorized_node
            /\ entry.authorized_node
            /\ entry.dismissed
            /\ entry.trust = "HIGH"
            /\ ~entry.pending_verify

\* --- C17 --------------------------------------------------------------

\* thread t, a handle_packet call about to enter the critical section for an
\* event its node has stored, takes its step
DuplicateArrives(t) ==
    /\ t.kind = "ingest" /\ t.pc = "lock"
    /\ Stored(t.node, t.packet.event_id)
    /\ CopiesIn(t, threads') < CopiesIn(t, threads)

\* the record without its devices_reached
Core(entry) == [entry EXCEPT !.devices_reached = {}]

\* C17: when a packet arrives (from a peer or by POST /api/broadcast) whose
\* event_id the node has stored, the node keeps the same set of records, the
\* record keeps its packet, cross_checks, pending_verify, dismissed,
\* authorized_node, trust, max_hop and first_seen, devices_reached gains at
\* most the sender's device_id, and the call returns without a relay.
C17_DuplicateIngestEffect ==
    [][\A t \in Running :
          DuplicateArrives(t) =>
              LET n == t.node
                  eid == t.packet.event_id
              IN  /\ DOMAIN event_log[n]' = DOMAIN event_log[n]
                  /\ \A m \in Nodes : \A e \in DOMAIN event_log[m] :
                        <<m, e>> # <<n, eid>> => event_log[m][e]' = event_log[m][e]
                  /\ Core(event_log[n][eid]') = Core(event_log[n][eid])
                  /\ event_log[n][eid].devices_reached \subseteq
                         event_log[n][eid].devices_reached'
                  /\ event_log[n][eid].devices_reached' \subseteq
                         event_log[n][eid].devices_reached \cup {t.packet.device_id}
                  /\ threads' = threads (-) SetToBag({t})
                  /\ UNCHANGED <<sent, nsent, rounds, created, epoch_created>>]_vars

\* a record created by a broadcast that has since received the same event
\* from peer B: three devices reached, one creation, one relay round
C17_Witness ==
    \E eid \in DOMAIN event_log["A"] :
        LET entry == event_log["A"][eid]
        IN  /\ entry.packet.hop_count = 0
            /\ entry.devices_reached =
                   {MY_DEVICE_ID("A"), "DEVICE-X", MY_DEVICE_ID("B")}
            /\ created["A"][eid] = 1
            /\ rounds["A"][eid].ingest = 1
            /\ AtA = {}

\* --- C18 --------------------------------------------------------------

\* the step leaves the event table, the hop log and the link registry as
\* they are, starts no thread and sends nothing
NodeUntouched ==
    UNCHANGED <<event_log, hop_log, discovered_peers, manual_peers, threads,
                sent, nsent, rounds, created, verified>>

\* a POST verify, sync, dismiss or authorize for eid arrives at n
RequestFor(n, eid) ==
    \/ VerifyUnknown(n, eid) \/ VerifyOwn(n, eid) \/ VerifyLocked(n, eid)
    \/ \E v \in SyncVerifiers, tr \in SyncTrusts : Sync(n, eid, v, tr)
    \/ dismiss_event(n, eid)
    \/ authorize_event(n, eid)

\* C18: verify, sync, dismiss or authorize on an event_id the node has not
\* stored is answered 404, and POST /api/broadcast without event_id, type or
\* device_id is answered 400; in both cases the event table, the hop log
\* and the link registry are unchanged and nothing is sent. Every step that
\* produces a 404 leaves them unchanged as well.
C18_ClientErrorsNoEffect ==
    /\ [][\A n \in Nodes : \A eid \in EventIds :
             ~Stored(n, eid) /\ RequestFor(n, eid) =>
                 /\ last_resp'.status = 404
                 /\ last_resp'.node = n /\ last_resp'.event_id = eid
                 /\ NodeUntouched]_vars
    /\ [][\A n \in Nodes : \A f \in SUBSET RequiredFields :
             BroadcastInvalid(n, f) =>
                 /\ last_resp' = Response("broadcast", n, "", 400)
                 /\ NodeUntouched]_vars
    /\ [][last_resp' # last_resp /\ last_resp'.status = 404 =>
             UNCHANGED <<event_log, hop_log, discovered_peers, manual_peers,
                         sent, nsent>>]_vars

\* node A stored an event, was cleared, and has just answered 404 to a sync
\* for that event: its table is still empty
C18_Witness ==
    /\ created["A"]["E1"] = 1
    /\ ~Stored("A", "E1")
    /\ event_log["A"] = EmptyFn
    /\ last_resp = Response("sync", "A", "E1", 404)

\* --- C19 --------------------------------------------------------------

\* what one dismiss makes of a record, as the specification states it
Dismissed(entry) == [entry EXCEPT !.dismissed = TRUE, !.pending_verify = FALSE]

\* C19: on every stored record, dismissing twice gives the record that
\* dismissing once gives (dismissed true, pending_verify false, the other
\* fields unchanged), and a POST /dismiss that follows a dismiss changes
\* nothing in the event table and is answered 200.
C19_DismissIdempotent ==
    /\ [](\A n \in Nodes : \A eid \in DOMAIN event_log[n] :
             /\ DismissEntry(event_log[n][eid]) = Dismissed(event_log[n][eid])
             /\ DismissEntry(DismissEntry(event_log[n][eid])) =
                    DismissEntry(event_log[n][eid]))
    /\ [][\A n \in Nodes : \A eid \in EventIds :
             Stored(n, eid) /\ dismiss_event(n, eid) =>
                 /\ event_log[n][eid]' = Dismissed(event_log[n][eid])
                 /\ last_resp' = Response("dismiss", n, eid, 200)
                 /\ last_resp = Response("dismiss", n, eid, 200)
                        => event_log' = event_log]_vars

\* the event arrived from B and the two requests that followed were both
\* dismisses (no verify, no authorize happened)
C19_Witness ==
    \E eid \in DOMAIN event_log["A"] :
        LET entry == event_log["A"][eid]
        IN  /\ requests = 3
            /\ entry.packet.hop_count > 0
            /\ entry.dismissed /\ ~entry.pending_verify
            /\ ~entry.authorized_node
            /\ verified[eid]["A"] = 0
            /\ last_resp = Response("dismiss", "A", eid, 200)

\* --- C20 --------------------------------------------------------------

\* Thread t is handling a frame that verify_event at B re-broadcast. B
\* relays on ingest before it verifies and, as the second conjunct of both
\* formulas states, never afterwards, so once B has verified in a quiet mesh
\* the frames that come from B are those of verify_event.
Rebroadcast(t) ==
    /\ t.kind = "ingest" /\ t.ip = "B" /\ t.pc = "lock"
    /\ verified[t.packet.event_id]["B"] > 0
    /\ [src |-> "B", dst |-> t.node, packet |-> t.packet, via |-> "verify",
        round |-> RoundsOf("B", t.packet.event_id)] \in sent

\* thread t takes its step
Leaves(t) == CopiesIn(t, threads') < CopiesIn(t, threads)

\* the peer takes the duplicate branch: the verifier joins devices_reached,
\* no record is created and nothing is relayed
DuplicateBranch(t) ==
    LET n == t.node
        eid == t.packet.event_id
    IN  /\ Stored(n, eid)
        /\ event_log' = [event_log EXCEPT ![n][eid].devices_reached =
                                             @ \cup {MY_DEVICE_ID("B")}]
        /\ created' = created
        /\ threads' = Remove(t)

\* the peer takes the fresh branch: it stores a pending record and goes on
\* to relay the frame with its own device id
FreshBranch(t) ==
    LET n == t.node
        eid == t.packet.event_id
    IN  /\ ~Stored(n, eid)
        /\ Stored(n, eid)'
        /\ event_log'[n][eid].pending_verify
        /\ created'[n][eid] = created[n][eid] + 1
        /\ \E u \in BagToSet(threads') :
              /\ u.node = n /\ u.kind = "ingest" /\ u.pc = "peers"
              /\ u.packet = Augmented(n, t.packet)

\* after its verification B starts no relay round of its own on ingest
VerifierRelaysNoMore ==
    \A eid \in EventIds :
        verified[eid]["B"] > 0 =>
            rounds'["B"][eid].ingest = rounds["B"][eid].ingest

\* C20 as stated: every peer that handles a frame re-broadcast by the
\* verifier takes the duplicate branch, so it creates no record and relays
\* nothing.
C20_RebroadcastNeverRelayed ==
    /\ [][\A t \in Running : Rebroadcast(t) /\ Leaves(t) => DuplicateBranch(t)]_vars
    /\ [][VerifierRelaysNoMore]_vars

\* C20, amended: a peer that holds a record of the event when it handles a
\* frame re-broadcast by the verifier takes the duplicate branch (the
\* verifier joins devices_reached, no record is created, nothing is
\* relayed); a peer that holds none, because it cleared its tables or joined
\* after the flood, takes the fresh branch: it creates a pending record and
\* relays.
C20_RebroadcastRelayedIfUnknown ==
    /\ [][\A t \in Running : Rebroadcast(t) /\ Leaves(t) =>
             IF Stored(t.node, t.packet.event_id)
             THEN DuplicateBranch(t) ELSE FreshBranch(t)]_vars
    /\ [][VerifierRelaysNoMore]_vars

\* B verified once and its re-broadcast reached A and C and was handled:
\* A, which kept its record from the flood, created nothing; C, which had
\* cleared its table, created the record a second time
C20_Witness ==
    \E eid \in EventIds :
        /\ Quiet
        /\ verified[eid]["B"] = 1
        /\ \A n \in {"A", "C"} : \E m \in sent :
              m.src = "B" /\ m.dst = n /\ m.via = "verify" /\ m.packet.event_id = eid
        /\ Stored("A", eid) /\ created["A"][eid] = 1
        /\ Stored("C", eid) /\ created["C"][eid] = 2

\* --- C21 --------------------------------------------------------------

\* the record a verification at n makes of `entry`, as the specification
\* states it
Verified(n, entry) ==
    LET e1 == [entry EXCEPT !.cross_checks = @ \cup {MY_DEVICE_ID(n)},
                            !.pending_verify = FALSE,
                            !.dismissed = FALSE]
    IN  [e1 EXCEPT !.trust = TrustFunction(e1.authorized_node,
                                 Cardinality(e1.cross_checks \ {e1.packet.device_id}))]

\* the frame verify_event re-broadcasts for a record
RebroadcastPacket(n, entry) ==
    [entry.packet EXCEPT !.hop_count = entry.max_hop + 1,
                         !.device_id = MY_DEVICE_ID(n)]

\* thread u is new in the bag
Enters(u) == CopiesIn(u, threads') > CopiesIn(u, threads)

\* the verify_event threads of node n
VerifyThreads(n) == {t \in Running : t.kind = "verify" /\ t.node = n}

\* C21: a POST /verify that is accepted on a pending record adds the node to
\* cross_checks, clears pending_verify and dismissed and recomputes trust;
\* the handler then reads the stored packet, sends a copy with hop_count =
\* max_hop + 1 and its own device id to every peer in Known(), and starts
\* the sync push only when that relay round is over; the push goes to every
\* peer in Known() with the verifier's id and the trust of the critical
\* section.
C21_VerifySequence ==
    \* the critical section
    /\ [][\A n \in Nodes, eid \in EventIds :
             (Stored(n, eid) /\ VerifyLocked(n, eid)) =>
                 /\ event_log'[n][eid] = Verified(n, event_log[n][eid])
                 /\ sent' = sent
                 /\ \E u \in VerifyThreads(n)' :
                       /\ Enters(u) /\ u.pc = "reread"
                       /\ u.trust = event_log'[n][eid].trust]_vars
    \* the packet of the re-broadcast and the peers of the round
    /\ [][\A n \in Nodes : \A t \in VerifyThreads(n) :
             /\ (t.pc = "reread" /\ Leaves(t) /\ Stored(n, t.packet.event_id)) =>
                    \E u \in VerifyThreads(n)' :
                       /\ Enters(u) /\ u.pc = "peers"
                       /\ u.packet = RebroadcastPacket(n, event_log[n][t.packet.event_id])
             /\ (t.pc = "peers" /\ Leaves(t)) =>
                    \E u \in Running' :
                       /\ Enters(u) /\ u.node = n /\ u.packet = t.packet
                       /\ \/ u.kind = "verify" /\ u.pc = "send"
                             /\ u.todo = get_all_known_peers(n) /\ u.todo # {}
                          \/ u.kind = "verify" /\ u.pc = "spawn"
                             /\ get_all_known_peers(n) = {}
             /\ (t.pc = "send" /\ Leaves(t)) =>
                    \E p \in t.todo :
                       /\ [src |-> n, dst |-> p, packet |-> t.packet,
                           via |-> "verify", round |-> t.round] \in sent'
                       /\ Frame(p, n, t.packet) \in Running'
                       /\ \E u \in VerifyThreads(n)' :
                             u.pc = "rec" /\ u.todo = t.todo \ {p} /\ u.packet = t.packet
             /\ (t.pc = "rec" /\ Leaves(t)) =>
                    \E u \in VerifyThreads(n)' :
                       /\ Enters(u) /\ u.packet = t.packet
                       /\ IF t.todo = {} THEN u.pc = "spawn"
                          ELSE u.pc = "send" /\ u.todo = t.todo]_vars
    \* the sync push starts when the round is over, and not before
    /\ [][\A u \in Running' :
             (u.kind = "push" /\ u.pc = "peers" /\ Enters(u)) =>
                 \E t \in VerifyThreads(u.node) :
                    /\ t.pc = "spawn" /\ t.todo = {} /\ Leaves(t)
                    /\ u.packet.event_id = t.packet.event_id
                    /\ u.trust = t.trust]_vars
    /\ [][\A t \in Running :
             (t.kind = "push" /\ Leaves(t)) =>
                 /\ t.pc = "peers" =>
                      \/ get_all_known_peers(t.node) = {}
                      \/ \E u \in Running' : /\ Enters(u) /\ u.kind = "push"
                                             /\ u.pc = "send"
                                             /\ u.todo = get_all_known_peers(t.node)
                 /\ t.pc = "send" =>
                      \E p \in t.todo \cap Nodes :
                         LET eid == t.packet.event_id
                         IN  IF Stored(p, eid)
                             THEN event_log'[p][eid] =
                                      SyncEntry(event_log[p][eid],
                                                MY_DEVICE_ID(t.node), t.trust)
                             ELSE last_resp' = Response("sync", p, eid, 404)]_vars

\* B verified the pending record it got from A; its re-broadcast went to A
\* and C, the sync push followed and has been answered, and nothing is left
\* to do
C21_Witness ==
    \E eid \in EventIds :
        /\ Quiet
        /\ verified[eid]["B"] = 1
        /\ Stored("B", eid)
        /\ event_log["B"][eid].cross_checks = {MY_DEVICE_ID("B")}
        /\ ~event_log["B"][eid].pending_verify
        /\ event_log["B"][eid].packet.hop_count > 0
        /\ \A n \in {"A", "C"} :
              [src |-> "B", dst |-> n,
               packet |-> RebroadcastPacket("B", event_log["B"][eid]),
               via |-> "verify", round |-> RoundsOf("B", eid)] \in sent
        /\ Stored("A", eid) /\ MY_DEVICE_ID("B") \in event_log["A"][eid].cross_checks
        /\ last_resp = Response("sync", "A", eid, 200)

\* --- C22 --------------------------------------------------------------

\* the record a sync naming `verifier` makes of `entry`, as the
\* specification states it: the trust of the body plays no part
Synced(entry, verifier) ==
    LET e1 == [entry EXCEPT !.cross_checks =
                                @ \cup (IF verifier = "" THEN {} ELSE {verifier})]
    IN  [e1 EXCEPT !.trust = TrustFunction(e1.authorized_node,
                                 Cardinality(e1.cross_checks \ {e1.packet.device_id}))]

\* C22: a POST /sync on a stored event adds the body's verified_by to
\* cross_checks and recomputes trust from the record; pending_verify,
\* dismissed, authorized_node, devices_reached, packet, max_hop, the other
\* records and the hop log stay as they are, nothing is sent, and the stored
\* trust does not depend on the trust of the body.
C22_SyncEffect ==
    [][\A n \in Nodes, eid \in EventIds, v \in SyncVerifiers, tr \in SyncTrusts :
          (Stored(n, eid) /\ Sync(n, eid, v, tr)) =>
              /\ event_log' = [event_log EXCEPT ![n][eid] = Synced(@, v)]
              /\ \A other \in SyncTrusts :
                    SyncEntry(event_log[n][eid], v, other) = event_log'[n][eid]
              /\ threads' = threads (+) SetToBag({SyncHandler(n, eid, v, tr)})
              /\ UNCHANGED <<hop_log, sent, nsent, rounds, created,
                             discovered_peers, manual_peers>>]_vars

\* a pending record from B has taken a sync that named verifier C and carried
\* trust HIGH: C is in cross_checks, the record is still pending and its
\* trust is LOW; the handler has its response still to build
C22_Witness ==
    \E eid \in DOMAIN event_log["A"] :
        LET entry == event_log["A"][eid]
        IN  /\ entry.cross_checks = {MY_DEVICE_ID("C")}
            /\ entry.pending_verify /\ ~entry.dismissed /\ ~entry.authorized_node
            /\ entry.trust = "LOW"
            /\ entry.packet.device_id = MY_DEVICE_ID("B")
            /\ SyncHandler("A", eid, MY_DEVICE_ID("C"), "HIGH") \in Running

\* --- C23 --------------------------------------------------------------

\* C23: every POST /verify and every POST /sync is answered 200, 400 or 404,
\* whatever DELETE /api/events and ingests run beside it.
C23_HandlersAlwaysAnswer ==
    last_resp.op \in {"verify", "sync"} => last_resp.status \in {200, 400, 404}

\* --- C24 --------------------------------------------------------------

\* thread t can take its next step
CanStep(t) ==
    NextOp(t).op = "acquire" =>
        \A u \in LockThreads(t.node) : NextOp(t).lock \notin HeldBy(u)

\* C24: on every path through the code a thread holds at most one of
\* event_lock, hop_lock, discovery_lock and peers_lock at a time, no lock
\* is held by two threads, and whenever threads are running one of them can
\* take its next step (no deadlock).
C24_OneLockAtATime ==
    \A n \in Nodes :
        /\ \A t \in LockThreads(n) : Cardinality(HeldBy(t)) <= 1
        /\ \A t \in LockThreads(n) : HeldBy(t) # {} => CopiesIn(t, threads) = 1
        /\ \A t, u \in LockThreads(n) : t # u => HeldBy(t) \cap HeldBy(u) = {}
        /\ LockThreads(n) # {} => \E t \in LockThreads(n) : CanStep(t)

\* get_hops has released hop_lock and waits for event_lock, which a
\* verify_event holds
C24_Witness ==
    /\ LockThread("A", "get_hops", 2) \in Running
    /\ LockThread("A", "verify_event", 1) \in Running
    /\ HeldBy(LockThread("A", "verify_event", 1)) = {"event_lock"}
    /\ ~CanStep(LockThread("A", "get_hops", 2))

\* --- C25 --------------------------------------------------------------

\* thread t is a connection that carries a frame without event_id (absent,
\* null or empty: handle_packet tests `not eid`), not yet accepted
KeepaliveArrives(t) ==
    /\ t.kind = "ingest" /\ t.pc = "wire"
    /\ t.packet.event_id = ""
    /\ Leaves(t)

\* C25: a frame without event_id received on a connection leaves the event
\* table and the hop log as they are and starts no relay; the only change is
\* that the remote IP of the connection is in the link registry with
\* last_seen = now.
C25_KeepaliveOnlyRegisters ==
    [][\A t \in Running :
          KeepaliveArrives(t) =>
              /\ UNCHANGED <<event_log, hop_log, manual_peers, sent, nsent, rounds,
                             created>>
              /\ threads' = threads (-) SetToBag({t})
              /\ DOMAIN discovered_peers'[t.node] =
                     DOMAIN discovered_peers[t.node] \cup {t.ip}
              /\ discovered_peers'[t.node][t.ip] = now
              /\ \A ip \in DOMAIN discovered_peers[t.node] \ {t.ip} :
                    discovered_peers'[t.node][ip] = discovered_peers[t.node][ip]
              /\ \A n \in Nodes \ {t.node} :
                    discovered_peers'[n] = discovered_peers[n]]_vars

\* node A holds an event and has since accepted a keepalive connection from
\* its own address, which no hello, scan or keepalive round registers
C25_Witness ==
    /\ DOMAIN event_log["A"] # {}
    /\ "A" \in DOMAIN discovered_peers["A"]
    /\ "A" \notin ManualSet("A")
    /\ AtA = {}

\* --- C26 --------------------------------------------------------------

\* connection thread t reads a line that is no alert object
BadLineRead(t) ==
    /\ t.kind = "conn" /\ t.pc = "recv"
    /\ t.count < Len(Stream(t.trust))
    /\ Stream(t.trust)[t.count + 1].kind # "object"
    /\ Leaves(t)

\* C26: a line that is not valid JSON, not valid UTF-8 or not a JSON object
\* is discarded and the connection stays open: the thread goes on to the
\* next line of the same connection.
C26_BadLineSkipped ==
    [][\A t \in Running :
          BadLineRead(t) =>
              /\ [t EXCEPT !.count = @ + 1] \in Running'
              /\ UNCHANGED <<event_log, hop_log>>]_vars

\* --- C27 --------------------------------------------------------------

\* the relay_to_peers threads in their loop over the peers
RelayLoops == {t \in Running : t.kind \in {"ingest", "verify"} /\ t.pc = "send"}

\* thread t's attempt on one peer fails in this step: it leaves its state
\* and nothing is sent
SendFails(t) == Leaves(t) /\ sent' = sent

\* what becomes of thread t when relay_to_peers returns normally: the
\* broadcast handler answers 200, a connection thread is done with the
\* frame, verify_event goes on to start the sync push
CallerCompletes(t) ==
    CASE t.kind = "verify" ->
            \E u \in Running' : /\ Enters(u) /\ u.kind = "verify" /\ u.pc = "spawn"
                                /\ u.node = t.node /\ u.packet = t.packet
      [] t.kind = "ingest" /\ t.ip = "" ->
            /\ threads' = threads (-) SetToBag({t})
            /\ last_resp' = Response("broadcast", t.node, t.packet.event_id, 200)
      [] OTHER -> threads' = threads (-) SetToBag({t})

\* C27: a connect or send that fails for one peer leaves the event table as
\* it is and takes only that peer off the round: the thread goes on with
\* the peers that are left, each of which gets the frame when its own send
\* succeeds, and when none is left relay_to_peers returns and the caller
\* (broadcast, ingest or verify) completes normally.
C27_FailureIsPerPeer ==
    /\ [][\A t \in RelayLoops :
             SendFails(t) =>
                 /\ event_log' = event_log
                 /\ \E p \in t.todo :
                       IF t.todo = {p} THEN CallerCompletes(t)
                       ELSE [t EXCEPT !.todo = @ \ {p}] \in Running']_vars
    /\ [][\A t \in RelayLoops :
             (Leaves(t) /\ sent' # sent) =>
                 \E p \in t.todo :
                    /\ Frame(p, t.node, t.packet) \in Running'
                    /\ event_log' = event_log
                    /\ \E u \in Running' :
                          /\ Enters(u) /\ u.kind = t.kind /\ u.pc = "rec"
                          /\ u.todo = t.todo \ {p}]_vars
    /\ [](\A t \in Running : t.kind \in {"ingest", "verify"} /\ t.pc \in {"send", "rec"}
              => Stored(t.node, t.packet.event_id))

\* A's only request so far was a broadcast; A knew B and C; in its relay
\* round the send to B failed and C got the frame; the broadcast was
\* answered 200 and the record is stored
C27_Witness ==
    \E eid \in EventIds :
        /\ requests = 1
        /\ get_all_known_peers("A") = {"B", "C"}
        /\ Stored("A", eid)
        /\ rounds["A"][eid].ingest = 1
        /\ {m.dst : m \in {x \in sent : x.src = "A"}} = {"C"}
        /\ AtA = {}
        /\ last_resp = Response("broadcast", "A", eid, 200)

\* --- C28 --------------------------------------------------------------

\* the hop counts of the packets node n has ingested for eid once the mesh
\* is quiet: those of the frames sent to it, and 0 for a broadcast made at n
HopsObserved(n, eid) ==
    {m.packet.hop_count : m \in {x \in sent : x.dst = n /\ x.packet.event_id = eid}}
        \cup {0 : o \in {x \in origin[eid] : x.node = n}}

\* C28: once every frame has been handled, the max_hop of a stored record is
\* the highest hop_count among the packets of that event the node ingested.
C28_MaxHopIsHighest ==
    Quiet => \A n \in Nodes : \A eid \in DOMAIN event_log[n] :
                 /\ event_log[n][eid].max_hop \in HopsObserved(n, eid)
                 /\ \A h \in HopsObserved(n, eid) : h <= event_log[n][eid].max_hop

\* --- C29 --------------------------------------------------------------

\* the frame the specification prescribes for the relay of `packet` by n
RelayFrame(n, packet) ==
    [packet EXCEPT !.hop_count = packet.hop_count + 1, !.device_id = MY_DEVICE_ID(n)]

\* C29: the record a node creates holds the packet exactly as it was
\* ingested; every frame the node sends from the relay step of that ingest
\* is this packet with hop_count + 1 and the node's own device id; and the
\* stored packet of a record never changes afterwards, whatever relay,
\* duplicate, verify re-broadcast or sync follows.
C29_StoredPacketIsOriginal ==
    /\ [][\A t \in Running :
             (t.kind = "ingest" /\ t.pc = "lock" /\ Leaves(t)
                 /\ ~Stored(t.node, t.packet.event_id)) =>
                 /\ event_log'[t.node][t.packet.event_id].packet = t.packet
                 /\ \E u \in Running' :
                       /\ Enters(u) /\ u.kind = "ingest" /\ u.pc = "peers"
                       /\ u.packet = RelayFrame(t.node, t.packet)]_vars
    /\ [][\A t \in Running :
             (t.kind = "ingest" /\ t.pc = "send" /\ Leaves(t)) =>
                 \E p \in t.todo :
                    /\ Stored(t.node, t.packet.event_id)
                    /\ sent' \ sent =
                         {[src |-> t.node, dst |-> p, via |-> "ingest", round |-> t.round,
                           packet |-> RelayFrame(t.node,
                                         event_log[t.node][t.packet.event_id].packet)]}
                    /\ Frame(p, t.node,
                             RelayFrame(t.node, event_log[t.node][t.packet.event_id].packet))
                           \in Running']_vars
    /\ [][\A n \in Nodes : \A eid \in DOMAIN event_log[n] :
             (eid \in DOMAIN event_log'[n] /\ created'[n][eid] = created[n][eid]) =>
                 event_log'[n][eid].packet = event_log[n][eid].packet]_vars

\* A broadcast the event and relayed it, took B's relay as a duplicate, then
\* B's re-broadcast and B's sync: its stored packet is still the one of the
\* broadcast
C29_Witness ==
    \E eid \in EventIds :
        /\ Quiet
        /\ verified[eid]["B"] = 1
        /\ Stored("A", eid)
        /\ event_log["A"][eid].packet =
               [event_id |-> eid, device_id |-> MY_DEVICE_ID("A"), hop_count |-> 0,
                is_authorized_node |-> FALSE]
        /\ MY_DEVICE_ID("B") \in event_log["A"][eid].devices_reached
        /\ MY_DEVICE_ID("B") \in event_log["A"][eid].cross_checks
        /\ \E m \in sent : /\ m.src = "A" /\ m.via = "ingest"
                           /\ m.packet = RelayFrame("A", event_log["A"][eid].packet)
        /\ \E m \in sent : m.src = "B" /\ m.dst = "A" /\ m.via = "verify"

\* --- C30 --------------------------------------------------------------

\* the manual list of n holds no ip twice
NoDuplicates(seq) == \A i, j \in DOMAIN seq : seq[i] = seq[j] => i = j

\* a step that registers ip in the discovered table of n: a hello, a scan
\* hit, a TCP connection from ip, or a keepalive sent to ip
Registers(n, ip) ==
    \/ Hello(n, ip)
    \/ ScanFound(n, ip)
    \/ \E t \in Running : /\ t.kind = "ingest" /\ t.pc = "wire"
                          /\ t.node = n /\ t.ip = ip /\ Leaves(t)
    \/ \E t \in Running : /\ t.kind = "keepalive" /\ t.node = n
                          /\ ip \in t.todo /\ Leaves(t)
                          /\ ip \in DOMAIN discovered_peers'[n]

\* the last request answered was DELETE /api/peers/ip and Known() has not
\* held ip since
Removed(n, ip) ==
    /\ last_resp = Response("remove_peer", n, ip, 200)
    /\ ip \notin get_all_known_peers(n)

\* what C30 says of the two requests themselves: the manual list holds no
\* ip twice; a second POST /api/peers with the same ip leaves the manual
\* list and Known() as the first left them; DELETE /api/peers/ip leaves ip
\* out of the manual list, the discovered table and Known(), and a second
\* one changes nothing
ManualIdempotent ==
    /\ [](\A n \in Nodes : NoDuplicates(manual_peers[n]))
    /\ [][\A n, ip \in Nodes :
             (ip \in ManualSet(n) /\ add_peer(n, ip)) =>
                 /\ manual_peers' = manual_peers
                 /\ get_all_known_peers(n)' = get_all_known_peers(n)]_vars
    /\ [][\A n, ip \in Nodes :
             remove_peer(n, ip) =>
                 /\ ip \notin ManualSet(n)'
                 /\ ip \notin DOMAIN discovered_peers'[n]
                 /\ ip \notin get_all_known_peers(n)'
                 /\ ManualSet(n)' = ManualSet(n) \ {ip}
                 /\ (ip \notin ManualSet(n) /\ ip \notin DOMAIN discovered_peers[n])
                        => UNCHANGED <<manual_peers, discovered_peers>>]_vars

\* C30 as stated: the above, and after DELETE /api/peers/ip the ip comes
\* back into Known() only by a hello, a TCP contact, a keepalive or a scan.
C30_ManualIdempotent ==
    /\ ManualIdempotent
    /\ [][\A n, ip \in Nodes :
             (Removed(n, ip) /\ ip \in get_all_known_peers(n)') =>
                 Registers(n, ip)]_vars

\* C30, amended: the above, and after DELETE /api/peers/ip the ip comes
\* back into Known() only by a hello, a TCP contact, a keepalive, a scan, or
\* by POST /api/peers with that ip.
C30_ManualIdempotentUntilAdded ==
    /\ ManualIdempotent
    /\ [][\A n, ip \in Nodes :
             (Removed(n, ip) /\ ip \in get_all_known_peers(n)') =>
                 Registers(n, ip) \/ add_peer(n, ip)]_vars

\* DELETE /api/peers/B was the last request answered: B is in neither table
\* and not in Known(), while C is still a manual peer
C30_Witness ==
    /\ requests = 3
    /\ last_resp = Response("remove_peer", "A", "B", 200)
    /\ manual_peers["A"] = <<"C">>
    /\ "B" \notin DOMAIN discovered_peers["A"]
    /\ "B" \notin get_all_known_peers("A")
    /\ "C" \in get_all_known_peers("A")

\* --- C31 --------------------------------------------------------------

\* C31: whenever no request, connection or relay is in progress at a node,
\* every event that has edges in the node's hop log has a record in its
\* event table.
C31_HopsHaveRecords ==
    \A n \in Nodes :
        (\A t \in Running : t.node # n) =>
            \A eid \in EventIds : HopsOf(hop_log[n], eid) # <<>> => Stored(n, eid)

====
